---- MODULE Spec2Model ----
(***************************************************************************)
(* Room registry, room state machine, Bingo engine and subscription        *)
(* lifecycle of the bingo-backend server.                                  *)
(*                                                                         *)
(* A request handler is one action: the section it runs under the          *)
(* registry's write lock, together with the registration of the broadcast  *)
(* it then awaits.  The broadcast itself (one send per roster channel,     *)
(* joined) proceeds in Deliver steps that interleave with other tasks.     *)
(***************************************************************************)
EXTENDS Integers, Sequences, FiniteSets, TLC

\* ------------------------------------------------------------------ bounds
Players == {"a", "b"}               \* caller-supplied player ids
RoomIds == {"R1"}                   \* outcomes of generate_rand_string(6)
MaxSubs == 2                        \* subscriptions opened in one run
MaxJobs == 2                        \* broadcasts in flight at once
MaxNumber == 4                      \* numbers a client may call: 1..MaxNumber
MaxGames == 2                       \* games that get past their start in one run
ChannelCapacity == 2                \* channel::<ServerResponse>(2)
BoardSizes == {2}                   \* board_size arguments of start_game

Channels == 1..MaxSubs
Numbers == 1..MaxNumber

\* Grids a client may submit for board_size 2: a well-formed 2x2 grid, a
\* single row of four cells, a grid with a repeated value, a grid with a
\* value out of range.
BoardInputs ==
    { << <<1, 2>>, <<3, 4>> >>,
      << <<1, 2, 3, 4>> >>,
      << <<1, 1>>, <<2, 3>> >>,
      << <<1, 2>>, <<3, 5>> >> }

NoBoard == << >>                    \* Option<Board>::None
NoChannel == 0                      \* Option<Sender>::None
NoTurn == ""

VARIABLES
    rooms,      \* Storage.private_rooms: room id -> Room
    subs,       \* per subscription: the channel created by server_messages
    fin,        \* per subscription: position of the task spawned by Drop
    jobs,       \* broadcasts in flight: message, channels still to be sent to
    games,      \* number of games that got past their start
    ret         \* what the most recent handler did and returned

vars == <<rooms, subs, fin, jobs, games, ret>>

\* the channels created so far and those still to be created
SubIds == DOMAIN subs

\* --------------------------------------------------------------- sequences
Range(s) == {s[i] : i \in DOMAIN s}

Remove(s, k) == [i \in 1..(Len(s) - 1) |-> IF i < k THEN s[i] ELSE s[i + 1]]

\* Iterator::position: first index at which the id occurs, 0 for None
Position(players, id) ==
    IF \E i \in DOMAIN players : players[i].id = id
    THEN CHOOSE i \in DOMAIN players :
            /\ players[i].id = id
            /\ \A j \in 1..(i - 1) : players[j].id # id
    ELSE 0

HasPlayer(players, id) == Position(players, id) # 0

\* ------------------------------------------------------------------ Board
Flatten(numbers) == UNION {Range(numbers[i]) : i \in DOMAIN numbers}

SetMin(S) == CHOOSE x \in S : \A y \in S : x <= y
SetMax(S) == CHOOSE x \in S : \A y \in S : x >= y

\* Board::new: TRUE iff the grid is accepted
Board_new(numbers, board_size) ==
    LET all_num == Flatten(numbers) IN
    IF Cardinality(all_num) = board_size * board_size
    THEN LET lo == IF all_num = {} THEN 0 ELSE SetMin(all_num)
             hi == IF all_num = {} THEN board_size * board_size + 1
                   ELSE SetMax(all_num)
         IN ~(lo < 1 \/ hi > board_size * board_size)
    ELSE FALSE

Called(selected_cells, val) ==
    \E k \in DOMAIN selected_cells : selected_cells[k].cell_value = val

\* get_score counting the first diagonal only
get_score_one_diagonal(numbers, selected_cells) ==
    LET n == Len(numbers)
        zero(i, j) == Called(selected_cells, numbers[i][j])
        rows == Cardinality({i \in 1..n : \A j \in 1..n : zero(i, j)})
        cols == Cardinality({j \in 1..n : \A i \in 1..n : zero(i, j)})
        d1 == IF \A i \in 1..n : zero(i, i) THEN 1 ELSE 0
    IN rows + cols + d1

\* Board::get_score: rows, columns and the two diagonals of the
\* len x len array whose cells have all been called
get_score(numbers, selected_cells) ==
    LET n == Len(numbers)
        zero(i, j) == Called(selected_cells, numbers[i][j])
        rows == Cardinality({i \in 1..n : \A j \in 1..n : zero(i, j)})
        cols == Cardinality({j \in 1..n : \A i \in 1..n : zero(i, j)})
        d1 == IF \A i \in 1..n : zero(i, i) THEN 1 ELSE 0
        d2 == IF \A i \in 1..n : zero(i, n + 1 - i) THEN 1 ELSE 0
    IN rows + cols + d1 + d2

wining_points(numbers) == Len(numbers)

has_completed(numbers, selected_cells) ==
    get_score(numbers, selected_cells) >= wining_points(numbers)

\* p.data.board.map(f).unwrap_or(false)
NotCompleted(p, selected_cells) ==
    IF p.board = NoBoard THEN FALSE
    ELSE ~has_completed(p.board, selected_cells)


\* ------------------------------------------------------------ Bingo engine
NoGame ==
    [board_size |-> 0, game_state |-> "None", ready |-> << >>,
     turn |-> NoTurn, selected_numbers |-> << >>]

\* LobbyData.last_game; of the archived GameData the model keeps the roster
\* ids and the turn, the server never reads the archive again
NoLastGame ==
    [present |-> FALSE, players |-> << >>, turn |-> NoTurn, leader_board |-> << >>]

is_game_running(game) == game.game_state = "GameRunning"

can_change_turn(game, player_id) ==
    IF game.game_state = "GameRunning" THEN game.turn = player_id ELSE FALSE

Clamp(x, lo, hi) == IF x < lo THEN lo ELSE IF x > hi THEN hi ELSE x

\* the (score, l) pair get_rankings keeps for one player after the loop
\* has handled the prefixes of length 1..len
RECURSIVE PlayerTurn(_, _, _)
PlayerTurn(p, game, len) ==
    IF len = 0 THEN [score |-> 0, at |-> 0, id |-> p.id]
    ELSE LET prev == PlayerTurn(p, game, len - 1)
             temp_selected_cells == SubSeq(game.selected_numbers, 1, len)
             score == Clamp(IF p.board = NoBoard THEN 0
                            ELSE get_score(p.board, temp_selected_cells),
                            0, game.board_size)
         IN IF prev.score < score
            THEN [score |-> score, at |-> len - 1, id |-> p.id]
            ELSE prev

\* the comparator putting the later prefix first among equal scores
RankLess_latest(p1, p2) ==
    IF p1.score = p2.score THEN p1.at > p2.at ELSE p1.score > p2.score

\* the comparator of sort_by: p1 sorts strictly before p2
RankLess(p1, p2) ==
    IF p1.score = p2.score THEN p1.at < p2.at ELSE p1.score > p2.score

\* slice::sort_by is stable
RECURSIVE SortBy(_)
SortBy(s) ==
    IF s = << >> THEN << >>
    ELSE LET n == Len(s)
             front == SortBy(SubSeq(s, 1, n - 1))
             x == s[n]
             k == Cardinality({i \in DOMAIN front : ~RankLess(x, front[i])})
         IN SubSeq(front, 1, k) \o <<x>> \o SubSeq(front, k + 1, Len(front))

RECURSIVE RankAt(_, _)
RankAt(sorted, i) ==
    IF i = 1 THEN 1
    ELSE LET last_player == sorted[i - 1]
             p == sorted[i]
         IN RankAt(sorted, i - 1)
            + (IF last_player.score > p.score \/ last_player.at < p.at
               THEN 1 ELSE 0)

\* get_rankings listing only the players who scored
get_rankings_scorers(game, players) ==
    IF game.game_state = "GameRunning"
    THEN LET player_turn ==
                 [i \in DOMAIN players |->
                     PlayerTurn(players[i], game, Len(game.selected_numbers))]
             scored(x) == x.score > 0
             sorted == SortBy(SelectSeq(player_turn, scored))
         IN [i \in DOMAIN sorted |->
                [rank |-> RankAt(sorted, i), player |-> sorted[i].id]]
    ELSE << >>

\* GameData::get_rankings / Bingo::get_rankings
get_rankings(game, players) ==
    IF game.game_state = "GameRunning"
    THEN LET player_turn ==
                 [i \in DOMAIN players |->
                     PlayerTurn(players[i], game, Len(game.selected_numbers))]
             sorted == SortBy(player_turn)
         IN [i \in DOMAIN sorted |->
                [rank |-> RankAt(sorted, i), player |-> sorted[i].id]]
    ELSE << >>

\* the scan taking players without a channel as well
Eligible_offline(p, selected_cells) == NotCompleted(p, selected_cells)

\* the test of the scan in get_next_turn_player
Eligible(p, selected_cells) ==
    p.send_channel # NoChannel /\ NotCompleted(p, selected_cells)

\* Bingo::get_next_turn_player: NoTurn stands for None
get_next_turn_player(game, players) ==
    IF game.game_state = "GameRunning"
    THEN IF ~\E i \in DOMAIN players : Eligible(players[i], game.selected_numbers)
         THEN NoTurn
         ELSE LET position == Position(players, game.turn)
                  n == Len(players)
                  at(k) == players[((position + k - 1) % n) + 1]
              IN IF position = 0 THEN NoTurn
                 ELSE LET k == CHOOSE k \in 1..n :
                                  /\ Eligible(at(k), game.selected_numbers)
                                  /\ \A j \in 1..(k - 1) :
                                        ~Eligible(at(j), game.selected_numbers)
                      IN at(k).id
    ELSE NoTurn

\* Bingo::change_turn
change_turn(game, player_id) ==
    IF game.game_state = "GameRunning" THEN [game EXCEPT !.turn = player_id]
    ELSE game

\* GameData::change_turn, as the registry-level callers use it
GameData_change_turn(game, players) ==
    LET next == get_next_turn_player(game, players)
    IN IF next = NoTurn THEN game ELSE change_turn(game, next)

Connected(players) == {i \in DOMAIN players : players[i].send_channel # NoChannel}

\* Bingo::is_game_end
is_game_end(game, players) ==
    IF game.game_state = "GameRunning"
    THEN Cardinality({i \in Connected(players) :
            IF players[i].board = NoBoard THEN FALSE
            ELSE get_score(players[i].board, game.selected_numbers)
                    < game.board_size}) <= 1
    ELSE Cardinality(Connected(players)) <= 1

\* Bingo::start_game
Bingo_start_game(board_size) ==
    [board_size |-> board_size, game_state |-> "BoardCreation", ready |-> << >>,
     turn |-> NoTurn, selected_numbers |-> << >>]

Ok(game, players) == [err |-> "", game |-> game, players |-> players]
Err(msg, game, players) == [err |-> msg, game |-> game, players |-> players]

\* Bingo::handle_player_message, ReadyBoard arm; pick is the index drawn by
\* players.choose(&mut thread_rng())
Bingo_ReadyBoard(game, players, player_id, board, pick) ==
    IF game.game_state = "BoardCreation"
    THEN IF player_id \in Range(game.ready)
         THEN Err("Board already set", game, players)
         ELSE IF HasPlayer(players, player_id)
         THEN LET i == Position(players, player_id)
                  players2 == [players EXCEPT ![i].board = board]
                  ready2 == Append(game.ready, player_id)
              IN IF Len(ready2) = Len(players2)
                 THEN Ok([game EXCEPT !.game_state = "GameRunning",
                                      !.ready = << >>,
                                      !.turn = players2[pick].id,
                                      !.selected_numbers = << >>],
                         players2)
                 ELSE Ok([game EXCEPT !.ready = ready2], players2)
         ELSE Err("Player not found", game, players)
    ELSE Err("Game Already Running", game, players)

\* the Move arm without the test for the turn
Bingo_Move_anyone(game, players, player_id, mov) ==
    IF game.game_state = "BoardCreation"
    THEN Err("Game Not Running", game, players)
    ELSE IF Called(game.selected_numbers, mov)
    THEN Err("Invalid move", game, players)
    ELSE LET pushed ==
               [game EXCEPT !.selected_numbers =
                   Append(@, [cell_value |-> mov, selected_by |-> player_id])]
             next == get_next_turn_player(pushed, players)
         IN Ok(IF next # NoTurn THEN change_turn(pushed, next) ELSE pushed,
               players)

\* the Move arm without the test for an already called number
Bingo_Move_repeat(game, players, player_id, mov) ==
    IF game.game_state = "BoardCreation"
    THEN Err("Game Not Running", game, players)
    ELSE IF game.turn = player_id
    THEN LET pushed ==
               [game EXCEPT !.selected_numbers =
                   Append(@, [cell_value |-> mov, selected_by |-> player_id])]
             next == get_next_turn_player(pushed, players)
         IN Ok(IF next # NoTurn THEN change_turn(pushed, next) ELSE pushed,
               players)
    ELSE Err("Not your turn", game, players)

\* Bingo::handle_player_message, Move arm
Bingo_Move(game, players, player_id, mov) ==
    IF game.game_state = "BoardCreation"
    THEN Err("Game Not Running", game, players)
    ELSE IF game.turn = player_id
    THEN IF Called(game.selected_numbers, mov)
         THEN Err("Invalid move", game, players)
         ELSE LET pushed ==
                    [game EXCEPT !.selected_numbers =
                        Append(@, [cell_value |-> mov, selected_by |-> player_id])]
                  next == get_next_turn_player(pushed, players)
              IN Ok(IF next # NoTurn THEN change_turn(pushed, next) ELSE pushed,
                    players)
    ELSE Err("Not your turn", game, players)


\* ------------------------------------------------------------- RoomState
LobbyPlayer(id, channel) == [id |-> id, send_channel |-> channel, board |-> NoBoard]

\* Room::new
Room_new(player_id) ==
    [state |-> "Lobby", players |-> <<LobbyPlayer(player_id, NoChannel)>>,
     game |-> NoGame, last_game |-> NoLastGame]

RoomOk(room) == [err |-> "", room |-> room]
RoomErr(msg, room) == [err |-> msg, room |-> room]

\* add_player letting every id into a game
add_player_open(room, player_id) ==
    IF room.state = "Lobby"
    THEN IF HasPlayer(room.players, player_id) THEN RoomOk(room)
         ELSE RoomOk([room EXCEPT !.players =
                        Append(@, LobbyPlayer(player_id, NoChannel))])
    ELSE RoomOk(room)

\* add_player pushing an entry without looking for the id
add_player_push(room, player_id) ==
    IF room.state = "Lobby"
    THEN RoomOk([room EXCEPT !.players =
                    Append(@, LobbyPlayer(player_id, NoChannel))])
    ELSE IF HasPlayer(room.players, player_id) THEN RoomOk(room)
         ELSE RoomErr("Game already running", room)

\* RoomState::add_player
add_player(room, player_id) ==
    IF room.state = "Lobby"
    THEN IF HasPlayer(room.players, player_id) THEN RoomOk(room)
         ELSE RoomOk([room EXCEPT !.players =
                        Append(@, LobbyPlayer(player_id, NoChannel))])
    ELSE IF HasPlayer(room.players, player_id) THEN RoomOk(room)
         ELSE RoomErr("Game already running", room)

\* is_empty testing the roster for entries instead of channels
is_empty_roster(room) == room.players = << >>

\* RoomState::is_empty
is_empty(room) == ~\E i \in DOMAIN room.players : room.players[i].send_channel # NoChannel

\* set_player_channel enrolling a player the roster does not have
set_player_channel_enrol(room, player_id, channel) ==
    IF HasPlayer(room.players, player_id)
    THEN RoomOk([room EXCEPT
            !.players[Position(room.players, player_id)].send_channel = channel])
    ELSE RoomOk([room EXCEPT !.players = Append(@, LobbyPlayer(player_id, channel))])

\* RoomState::set_player_channel
set_player_channel(room, player_id, channel) ==
    IF HasPlayer(room.players, player_id)
    THEN RoomOk([room EXCEPT
            !.players[Position(room.players, player_id)].send_channel = channel])
    ELSE RoomErr("Player does not exist", room)

\* disconnect_player deleting the roster entry
disconnect_player_deleting(room, player_id) ==
    IF HasPlayer(room.players, player_id)
    THEN RoomOk([room EXCEPT
            !.players = Remove(@, Position(room.players, player_id))])
    ELSE RoomErr("Player does not exist", room)

\* RoomState::disconnect_player
disconnect_player(room, player_id) ==
    IF HasPlayer(room.players, player_id)
    THEN RoomOk([room EXCEPT
            !.players[Position(room.players, player_id)].send_channel = NoChannel])
    ELSE RoomErr("Player does not exist", room)

\* remove_player keeping the entry and clearing its channel
remove_player_marking(room, player_id) ==
    IF HasPlayer(room.players, player_id)
    THEN RoomOk([room EXCEPT
            !.players[Position(room.players, player_id)].send_channel = NoChannel])
    ELSE RoomErr("Player doesnt exist", room)

\* RoomState::remove_player
remove_player(room, player_id) ==
    IF HasPlayer(room.players, player_id)
    THEN RoomOk([room EXCEPT
            !.players = Remove(@, Position(room.players, player_id))])
    ELSE RoomErr("Player doesnt exist", room)

\* handle_game_end building the Lobby roster after the channels were cleared
handle_game_end_detached(room) ==
    IF room.state = "Game" /\ is_game_end(room.game, room.players)
    THEN LET cleared ==
                 [i \in DOMAIN room.players |->
                     [room.players[i] EXCEPT !.send_channel = NoChannel]]
         IN [state |-> "Lobby",
             players |-> [i \in DOMAIN cleared |->
                            LobbyPlayer(cleared[i].id, cleared[i].send_channel)],
             game |-> NoGame,
             last_game |->
                 IF is_game_running(room.game)
                 THEN [present |-> TRUE,
                       players |-> [i \in DOMAIN cleared |-> cleared[i].id],
                       turn |-> room.game.turn,
                       leader_board |-> get_rankings(room.game, cleared)]
                 ELSE NoLastGame]
    ELSE room

\* handle_game_end taking every running game for an ended one
handle_game_end_always(room) ==
    IF room.state = "Game"
       /\ (is_game_running(room.game) \/ is_game_end(room.game, room.players))
    THEN [state |-> "Lobby",
          players |-> [i \in DOMAIN room.players |->
                         LobbyPlayer(room.players[i].id, room.players[i].send_channel)],
          game |-> NoGame,
          last_game |->
              IF is_game_running(room.game)
              THEN [present |-> TRUE,
                    players |-> [i \in DOMAIN room.players |-> room.players[i].id],
                    turn |-> room.game.turn,
                    leader_board |-> get_rankings(room.game, room.players)]
              ELSE NoLastGame]
    ELSE room

\* handle_game_end taking only the connected players into the Lobby
handle_game_end_online(room) ==
    IF room.state = "Game" /\ is_game_end(room.game, room.players)
    THEN LET online(x) == x.send_channel # NoChannel
             kept == SelectSeq(room.players, online)
             cleared ==
                 [i \in DOMAIN room.players |->
                     [room.players[i] EXCEPT !.send_channel = NoChannel]]
         IN [state |-> "Lobby",
             players |-> [i \in DOMAIN kept |->
                             LobbyPlayer(kept[i].id, kept[i].send_channel)],
             game |-> NoGame,
             last_game |->
                 IF is_game_running(room.game)
                 THEN [present |-> TRUE,
                       players |-> [i \in DOMAIN cleared |-> cleared[i].id],
                       turn |-> room.game.turn,
                       leader_board |-> get_rankings(room.game, cleared)]
                 ELSE NoLastGame]
    ELSE room

\* RoomState::handle_game_end
handle_game_end(room) ==
    IF room.state = "Game" /\ is_game_end(room.game, room.players)
    THEN LET lobby_player ==
                 [i \in DOMAIN room.players |->
                     LobbyPlayer(room.players[i].id, room.players[i].send_channel)]
             cleared ==
                 [i \in DOMAIN room.players |->
                     [room.players[i] EXCEPT !.send_channel = NoChannel]]
         IN [state |-> "Lobby",
             players |-> lobby_player,
             game |-> NoGame,
             last_game |->
                 IF is_game_running(room.game)
                 THEN [present |-> TRUE,
                       players |-> [i \in DOMAIN cleared |-> cleared[i].id],
                       turn |-> room.game.turn,
                       leader_board |-> get_rankings(room.game, cleared)]
                 ELSE NoLastGame]
    ELSE room

\* the StartGame arm without the match on the room's state
Room_StartGame_restart(room, board_size) ==
    RoomOk(handle_game_end(
        [state |-> "Game",
         players |-> [i \in DOMAIN room.players |->
                        [id |-> room.players[i].id,
                         send_channel |-> room.players[i].send_channel,
                         board |-> NoBoard]],
         game |-> Bingo_start_game(board_size),
         last_game |-> NoLastGame]))

\* Room::handle_player_message, StartGame arm
Room_StartGame(room, board_size) ==
    IF room.state = "Lobby"
    THEN RoomOk(handle_game_end(
            [state |-> "Game",
             players |-> [i \in DOMAIN room.players |->
                            [id |-> room.players[i].id,
                             send_channel |-> room.players[i].send_channel,
                             board |-> NoBoard]],
             game |-> Bingo_start_game(board_size),
             last_game |-> NoLastGame]))
    ELSE RoomErr("Game Already Started", room)

\* the in-game arms without the trailing handle_game_end
Room_GameMessage_unchecked(room, r) ==
    IF r.err # "" THEN RoomErr(r.err, room)
    ELSE RoomOk([room EXCEPT !.game = r.game, !.players = r.players])

\* Room::handle_player_message, in-game arms: the engine's result, then
\* handle_game_end when the engine accepted the message
Room_GameMessage(room, r) ==
    IF r.err # "" THEN RoomErr(r.err, room)
    ELSE RoomOk(handle_game_end([room EXCEPT !.game = r.game, !.players = r.players]))

Room_ReadyBoard(room, player_id, board, pick) ==
    IF room.state = "Lobby" THEN RoomErr("Game Not Started", room)
    ELSE Room_GameMessage(room,
            Bingo_ReadyBoard(room.game, room.players, player_id, board, pick))

Room_Move(room, player_id, mov) ==
    IF room.state = "Lobby" THEN RoomErr("Game Not Started", room)
    ELSE Room_GameMessage(room, Bingo_Move(room.game, room.players, player_id, mov))

\* the callers without their turn update
UpdateTurn_skipped(room, player_id) == room

\* the turn update of MutationRoot::disconnect and of the Drop task
UpdateTurn(room, player_id) ==
    IF room.state = "Game" /\ can_change_turn(room.game, player_id)
    THEN [room EXCEPT !.game = GameData_change_turn(room.game, room.players)]
    ELSE room


\* ------------------------------------------------------ registry and tasks
Insert(map, key, room) ==
    [k \in DOMAIN map \cup {key} |-> IF k = key THEN room ELSE map[k]]

Delete(map, key) == [k \in DOMAIN map \ {key} |-> map[k]]

NoSub == [player |-> "", room |-> "", status |-> "unused", buf |-> << >>]

Returned(op, player_id, err) == [op |-> op, err |-> err]

\* the RwLock: the Drop task holds the read lock while its broadcast is
\* awaited; every handler's write section runs only when no reader is in
ReadLocked == \E s \in SubIds : fin[s] = "bcast"

\* the channels of a roster snapshot: one send future per Some(channel)
Recipients(room) ==
    {room.players[i].send_channel : i \in Connected(room.players)}

Message(kind, player_id) == [kind |-> kind, player |-> player_id]

\* BroadcastPlayers::broadcast on a clone of the room: join_all over the
\* sends; with nothing to send the join is ready at once
Broadcast(room, message, task, sub) ==
    IF Recipients(room) = {}
    THEN /\ jobs' = jobs
    ELSE /\ Cardinality(jobs) < MaxJobs
         /\ jobs' = jobs \cup {[message |-> message, pending |-> Recipients(room),
                                task |-> task, sub |-> sub]}

Init ==
    /\ rooms = [r \in {} |-> Room_new("a")]
    /\ subs = [s \in Channels |-> NoSub]
    /\ fin = [s \in Channels |-> "none"]
    /\ jobs = {}
    /\ games = 0
    /\ ret = Returned("init", "", "")

\* create_lobby inserting without the test for the id
create_lobby_replace(player_id, room_id) ==
    /\ ~ReadLocked
    /\ rooms' = Insert(rooms, room_id, Room_new(player_id))
    /\ ret' = Returned("create_lobby", player_id, "")
    /\ UNCHANGED <<subs, fin, jobs, games>>

\* MutationRoot::create_lobby
create_lobby(player_id, room_id) ==
    /\ ~ReadLocked
    /\ IF room_id \in DOMAIN rooms
       THEN /\ ret' = Returned("create_lobby", player_id, "Cant create room")
            /\ UNCHANGED rooms
       ELSE /\ rooms' = Insert(rooms, room_id, Room_new(player_id))
            /\ ret' = Returned("create_lobby", player_id, "")
    /\ UNCHANGED <<subs, fin, jobs, games>>

\* MutationRoot::join_lobby
join_lobby(player_id, room_id) ==
    /\ ~ReadLocked
    /\ IF room_id \notin DOMAIN rooms
       THEN /\ ret' = Returned("join_lobby", player_id, "Room does not exist")
            /\ UNCHANGED <<rooms, jobs>>
       ELSE LET r == add_player(rooms[room_id], player_id) IN
            IF r.err # ""
            THEN /\ ret' = Returned("join_lobby", player_id, r.err)
                 /\ UNCHANGED <<rooms, jobs>>
            ELSE /\ rooms' = [rooms EXCEPT ![room_id] = r.room]
                 /\ Broadcast(r.room, Message("PlayerJoined", player_id), "req", 0)
                 /\ ret' = Returned("join_lobby", player_id, "")
    /\ UNCHANGED <<subs, fin, games>>

\* MutationRoot::disconnect (leave_room)
disconnect(player_id, room_id) ==
    /\ ~ReadLocked
    /\ IF room_id \notin DOMAIN rooms
       THEN /\ ret' = Returned("disconnect", player_id, "Room does not exist")
            /\ UNCHANGED <<rooms, jobs>>
       ELSE LET r == remove_player(rooms[room_id], player_id) IN
            IF r.err # ""
            THEN /\ ret' = Returned("disconnect", player_id, r.err)
                 /\ UNCHANGED <<rooms, jobs>>
            ELSE LET room == handle_game_end(UpdateTurn(r.room, player_id)) IN
                 /\ rooms' = [rooms EXCEPT ![room_id] = room]
                 /\ Broadcast(room, Message("PlayerRemoved", player_id), "req", 0)
                 /\ ret' = Returned("disconnect", player_id, "")
    /\ UNCHANGED <<subs, fin, games>>

\* chat without the test that the sender is in the roster
chat_open(player_id, room_id) ==
    /\ ~ReadLocked
    /\ IF room_id \notin DOMAIN rooms
       THEN /\ ret' = Returned("chat", player_id, "Room does not exist")
            /\ UNCHANGED jobs
       ELSE /\ Broadcast(rooms[room_id], Message("ChatMessage", player_id), "req", 0)
            /\ ret' = Returned("chat", player_id, "")
    /\ UNCHANGED <<rooms, subs, fin, games>>

\* MutationRoot::chat
chat(player_id, room_id) ==
    /\ ~ReadLocked
    /\ IF room_id \notin DOMAIN rooms
       THEN /\ ret' = Returned("chat", player_id, "Room does not exist")
            /\ UNCHANGED jobs
       ELSE IF ~HasPlayer(rooms[room_id].players, player_id)
            THEN /\ ret' = Returned("chat", player_id, "Player not in room")
                 /\ UNCHANGED jobs
            ELSE /\ Broadcast(rooms[room_id], Message("ChatMessage", player_id), "req", 0)
                 /\ ret' = Returned("chat", player_id, "")
    /\ UNCHANGED <<rooms, subs, fin, games>>

\* BingoInputs::start_game
start_game(player_id, room_id, board_size) ==
    /\ ~ReadLocked
    /\ IF room_id \notin DOMAIN rooms
       THEN /\ ret' = Returned("start_game", player_id, "Room does not exis")
            /\ UNCHANGED <<rooms, jobs, games>>
       ELSE LET r == Room_StartGame(rooms[room_id], board_size) IN
            IF r.err # ""
            THEN /\ ret' = Returned("start_game", player_id, r.err)
                 /\ UNCHANGED <<rooms, jobs, games>>
            ELSE /\ rooms' = [rooms EXCEPT ![room_id] = r.room]
                 /\ IF r.room.state # "Game"
                    THEN /\ ret' = Returned("start_game", player_id, "Not game")
                         /\ UNCHANGED <<jobs, games>>
                    ELSE /\ games < MaxGames
                         /\ games' = games + 1
                         /\ Broadcast(r.room, Message("GameStarted", player_id), "req", 0)
                         /\ ret' = Returned("start_game", player_id, "")
    /\ UNCHANGED <<subs, fin>>

\* BingoInputs::ready_board
ready_board(player_id, room_id, board, pick) ==
    /\ ~ReadLocked
    /\ IF room_id \notin DOMAIN rooms
       THEN /\ ret' = Returned("ready_board", player_id, "Room does not exis")
            /\ UNCHANGED <<rooms, jobs>>
       ELSE IF rooms[room_id].state # "Game"
       THEN /\ ret' = Returned("ready_board", player_id, "Game not running")
            /\ UNCHANGED <<rooms, jobs>>
       ELSE IF ~Board_new(board, rooms[room_id].game.board_size)
       THEN /\ ret' = Returned("ready_board", player_id, "Invalid Board")
            /\ UNCHANGED <<rooms, jobs>>
       ELSE LET r == Room_ReadyBoard(rooms[room_id], player_id, board, pick) IN
            IF r.err # ""
            THEN /\ ret' = Returned("ready_board", player_id, r.err)
                 /\ UNCHANGED <<rooms, jobs>>
            ELSE /\ rooms' = [rooms EXCEPT ![room_id] = r.room]
                 /\ Broadcast(r.room, Message("RoomUpdate", player_id), "req", 0)
                 /\ ret' = Returned("ready_board", player_id, "")
    /\ UNCHANGED <<subs, fin, games>>

\* BingoInputs::player_move
player_move(player_id, room_id, number) ==
    /\ ~ReadLocked
    /\ IF room_id \notin DOMAIN rooms
       THEN /\ ret' = Returned("player_move", player_id, "Room does not exis")
            /\ UNCHANGED <<rooms, jobs>>
       ELSE LET r == Room_Move(rooms[room_id], player_id, number) IN
            IF r.err # ""
            THEN /\ ret' = Returned("player_move", player_id, r.err)
                 /\ UNCHANGED <<rooms, jobs>>
            ELSE /\ rooms' = [rooms EXCEPT ![room_id] = r.room]
                 /\ Broadcast(r.room, Message("RoomUpdate", player_id), "req", 0)
                 /\ ret' = Returned("player_move", player_id, "")
    /\ UNCHANGED <<subs, fin, games>>


\* ----------------------------------------------------------- subscriptions
\* the channel the next server_messages call creates
NextSub == CHOOSE s \in SubIds :
              /\ subs[s].status = "unused"
              /\ \A t \in SubIds : subs[t].status = "unused" => s <= t

\* Subscription::server_messages up to the await of its broadcast; the
\* stream is handed to the client when that broadcast has completed
server_messages(player_id, room_id) ==
    /\ ~ReadLocked
    /\ \E s \in SubIds : subs[s].status = "unused"
    /\ IF room_id \notin DOMAIN rooms
       THEN /\ ret' = Returned("server_messages", player_id, "Room does not exist")
            /\ UNCHANGED <<rooms, subs, jobs>>
       ELSE LET r == set_player_channel(rooms[room_id], player_id, NextSub) IN
            IF r.err # ""
            THEN /\ ret' = Returned("server_messages", player_id, r.err)
                 /\ UNCHANGED <<rooms, subs, jobs>>
            ELSE /\ rooms' = [rooms EXCEPT ![room_id] = r.room]
                 /\ subs' = [subs EXCEPT ![NextSub] =
                        [player |-> player_id, room |-> room_id,
                         status |-> "connecting", buf |-> << >>]]
                 /\ Broadcast(r.room, Message("PlayerConnected", player_id),
                              "sub", NextSub)
                 /\ ret' = Returned("server_messages", player_id, "")
    /\ UNCHANGED <<fin, games>>

\* ChannelPlayer::send on one channel of a broadcast: Sender::send waits
\* for capacity, fails when the receiver is gone
Deliver(job, c) ==
    /\ job \in jobs
    /\ c \in job.pending
    /\ \/ subs[c].status = "closed"
       \/ Len(subs[c].buf) < ChannelCapacity
    /\ LET rest == [job EXCEPT !.pending = @ \ {c}]
           sent == IF subs[c].status = "closed" THEN subs
                   ELSE [subs EXCEPT ![c].buf = Append(@, job.message)]
       IN IF rest.pending = {}
          THEN /\ jobs' = jobs \ {job}
               /\ subs' = IF job.task = "sub"
                          THEN [sent EXCEPT ![job.sub].status = "live"]
                          ELSE sent
               /\ fin' = IF job.task = "fin"
                         THEN [fin EXCEPT ![job.sub] = "done"]
                         ELSE fin
          ELSE /\ jobs' = (jobs \ {job}) \cup {rest}
               /\ subs' = sent
               /\ UNCHANGED fin
    /\ UNCHANGED <<rooms, games, ret>>

\* Stream::poll_next of PlayerDisconnected: the client takes one event
poll_next(s) ==
    /\ subs[s].status = "live"
    /\ subs[s].buf # << >>
    /\ subs' = [subs EXCEPT ![s].buf = Tail(@)]
    /\ UNCHANGED <<rooms, fin, jobs, games, ret>>

\* Drop for PlayerDisconnected: the connection ended, the receiver goes
\* away and the cleanup task is spawned
drop(s) ==
    /\ subs[s].status = "live"
    /\ subs' = [subs EXCEPT ![s].status = "closed", ![s].buf = << >>]
    /\ fin' = [fin EXCEPT ![s] = "spawned"]
    /\ UNCHANGED <<rooms, jobs, games, ret>>

\* the room as the write section of the Drop task leaves it
Cleaned(room, player_id) ==
    LET d == disconnect_player(room, player_id)
    IN handle_game_end(IF is_empty(d.room) THEN d.room
                       ELSE UpdateTurn(d.room, player_id))

\* the Drop task is between its two blocks; "removed" when the flag remove
\* of the first block was set, "cleaned" when it was not
BetweenBlocks(s) == fin[s] \in {"cleaned", "removed"}

\* the Drop task, first block: under the write lock
drop_cleanup(s) ==
    /\ fin[s] = "spawned"
    /\ ~ReadLocked
    /\ LET room_id == subs[s].room
           player_id == subs[s].player
       IN /\ IF room_id \in DOMAIN rooms
             THEN IF is_empty(disconnect_player(rooms[room_id], player_id).room)
                  THEN rooms' = Delete(rooms, room_id)
                  ELSE rooms' = [rooms EXCEPT ![room_id] = Cleaned(@, player_id)]
             ELSE UNCHANGED rooms
          /\ ret' = Returned("drop", player_id, "")
          /\ fin' = [fin EXCEPT ![s] =
                       IF room_id \in DOMAIN rooms /\ room_id \notin DOMAIN rooms'
                       THEN "removed" ELSE "cleaned"]
    /\ UNCHANGED <<subs, jobs, games>>

\* the Drop task, second block: PlayerLeft broadcast under the read lock
drop_broadcast(s) ==
    /\ BetweenBlocks(s)
    /\ LET room_id == subs[s].room
           player_id == subs[s].player
       IN IF room_id \in DOMAIN rooms /\ Recipients(rooms[room_id]) # {}
          THEN /\ Broadcast(rooms[room_id], Message("PlayerLeft", player_id), "fin", s)
               /\ fin' = [fin EXCEPT ![s] = "bcast"]
          ELSE /\ fin' = [fin EXCEPT ![s] = "done"]
               /\ UNCHANGED jobs
    /\ UNCHANGED <<rooms, subs, games, ret>>

\* no broadcast is in flight and no delivered event is waiting for its client
Delivered ==
    /\ jobs = {}
    /\ \A s \in SubIds : subs[s].buf = << >>

\* Delivered, and no Drop task is waiting for the write lock or between its
\* two blocks
Quiet ==
    /\ Delivered
    /\ \A s \in SubIds : fin[s] # "spawned" /\ ~BetweenBlocks(s)

\* every interleaving of the lobby handlers, the sends of their
\* broadcasts, the clients' reads and the Drop tasks
NextAsync ==
    \/ \E p \in Players, r \in RoomIds : create_lobby(p, r)
    \/ \E p \in Players, r \in RoomIds : join_lobby(p, r)
    \/ \E p \in Players, r \in RoomIds : chat(p, r)
    \/ \E p \in Players, r \in RoomIds : server_messages(p, r)
    \/ \E job \in jobs : \E c \in job.pending : Deliver(job, c)
    \/ \E s \in SubIds : poll_next(s)
    \/ \E s \in SubIds : drop(s)
    \/ \E s \in SubIds : drop_cleanup(s)
    \/ \E s \in SubIds : drop_broadcast(s)

\* the same steps with prompt clients and prompt Drop tasks: a handler
\* starts only when the broadcasts before it have been delivered and read
\* and the Drop tasks spawned before it have run
Next ==
    \/ \E p \in Players, r \in RoomIds : Quiet /\ create_lobby(p, r)
    \/ \E p \in Players, r \in RoomIds : Quiet /\ join_lobby(p, r)
    \/ \E p \in Players, r \in RoomIds : Quiet /\ disconnect(p, r)
    \/ \E p \in Players, r \in RoomIds : Quiet /\ chat(p, r)
    \/ \E p \in Players, r \in RoomIds, n \in BoardSizes : Quiet /\ start_game(p, r, n)
    \/ \E p \in Players, r \in RoomIds, b \in BoardInputs, pick \in 1..Cardinality(Players) :
          /\ Quiet
          /\ r \in DOMAIN rooms => pick <= Len(rooms[r].players)
          /\ ready_board(p, r, b, pick)
    \/ \E p \in Players, r \in RoomIds, n \in Numbers : Quiet /\ player_move(p, r, n)
    \/ \E p \in Players, r \in RoomIds : Quiet /\ server_messages(p, r)
    \/ \E job \in jobs : \E c \in job.pending : Deliver(job, c)
    \/ \E s \in SubIds : poll_next(s)
    \/ \E s \in SubIds : Quiet /\ drop(s)
    \/ \E s \in SubIds : Delivered /\ drop_cleanup(s)
    \/ \E s \in SubIds : drop_broadcast(s)

Spec == Init /\ [][Next]_vars

\* a table of three: the room after create_lobby by a, join_lobby by b and
\* by c and one subscription each, every event read
ThreePlayers == {"a", "b", "c"}

InitThree ==
    /\ rooms = [r \in RoomIds |->
                  [state |-> "Lobby",
                   players |-> <<LobbyPlayer("a", 1), LobbyPlayer("b", 2),
                                 LobbyPlayer("c", 3)>>,
                   game |-> NoGame, last_game |-> NoLastGame]]
    /\ subs = <<[player |-> "a", room |-> "R1", status |-> "live", buf |-> << >>],
                [player |-> "b", room |-> "R1", status |-> "live", buf |-> << >>],
                [player |-> "c", room |-> "R1", status |-> "live", buf |-> << >>]>>
    /\ fin = <<"none", "none", "none">>
    /\ jobs = {}
    /\ games = 0
    /\ ret = Returned("server_messages", "c", "")

\* the game played at that table, with prompt clients and Drop tasks
NextThree ==
    \/ \E p \in ThreePlayers, r \in RoomIds : Quiet /\ disconnect(p, r)
    \/ \E p \in ThreePlayers, r \in RoomIds, n \in BoardSizes :
          Quiet /\ start_game(p, r, n)
    \/ \E p \in ThreePlayers, r \in RoomIds, b \in BoardInputs,
          pick \in 1..Cardinality(ThreePlayers) :
          /\ Quiet
          /\ r \in DOMAIN rooms => pick <= Len(rooms[r].players)
          /\ ready_board(p, r, b, pick)
    \/ \E p \in ThreePlayers, r \in RoomIds, n \in Numbers :
          Quiet /\ player_move(p, r, n)
    \/ \E job \in jobs : \E c \in job.pending : Deliver(job, c)
    \/ \E s \in SubIds : poll_next(s)
    \/ \E s \in SubIds : Quiet /\ drop(s)
    \/ \E s \in SubIds : Delivered /\ drop_cleanup(s)
    \/ \E s \in SubIds : drop_broadcast(s)

SpecThree == InitThree /\ [][NextThree]_vars

SpecAsync == Init /\ [][NextAsync]_vars

\* a table of two and a latecomer: the room after create_lobby by a,
\* join_lobby by b and one subscription each, every event read
InitLate ==
    /\ rooms = [r \in RoomIds |->
                  [state |-> "Lobby",
                   players |-> <<LobbyPlayer("a", 1), LobbyPlayer("b", 2)>>,
                   game |-> NoGame, last_game |-> NoLastGame]]
    /\ subs = <<[player |-> "a", room |-> "R1", status |-> "live", buf |-> << >>],
                [player |-> "b", room |-> "R1", status |-> "live", buf |-> << >>]>>
    /\ fin = <<"none", "none">>
    /\ jobs = {}
    /\ games = 0
    /\ ret = Returned("server_messages", "b", "")

\* the games played at that table, with prompt clients and Drop tasks,
\* while a, b and c call join_lobby on the room when a game is on
NextLate ==
    \/ \E p \in ThreePlayers, r \in RoomIds :
          /\ Quiet
          /\ r \in DOMAIN rooms
          /\ rooms[r].state = "Game"
          /\ join_lobby(p, r)
    \/ \E p \in Players, r \in RoomIds : Quiet /\ disconnect(p, r)
    \/ \E p \in Players, r \in RoomIds, n \in BoardSizes : Quiet /\ start_game(p, r, n)
    \/ \E p \in Players, r \in RoomIds, b \in BoardInputs, pick \in 1..Cardinality(Players) :
          /\ Quiet
          /\ r \in DOMAIN rooms => pick <= Len(rooms[r].players)
          /\ ready_board(p, r, b, pick)
    \/ \E p \in Players, r \in RoomIds, n \in Numbers : Quiet /\ player_move(p, r, n)
    \/ \E job \in jobs : \E c \in job.pending : Deliver(job, c)
    \/ \E s \in SubIds : poll_next(s)
    \/ \E s \in SubIds : Quiet /\ drop(s)
    \/ \E s \in SubIds : Delivered /\ drop_cleanup(s)
    \/ \E s \in SubIds : drop_broadcast(s)

SpecLate == InitLate /\ [][NextLate]_vars

\* requests issued at that table at the same time: each write section
\* runs when it gets the lock, whatever broadcasts are still being sent
\* and whatever events are still unread
NextRace ==
    \/ \E p \in Players, r \in RoomIds, n \in BoardSizes : start_game(p, r, n)
    \/ \E p \in ThreePlayers \ Players, r \in RoomIds : join_lobby(p, r)
    \/ \E p \in Players, r \in RoomIds : chat(p, r)
    \/ \E job \in jobs : \E c \in job.pending : Deliver(job, c)
    \/ \E s \in SubIds : poll_next(s)

SpecRace == InitLate /\ [][NextRace]_vars

\* the table of two starting a game and submitting boards, every handler
\* free to run while the broadcasts of earlier handlers are still sending
NextBoards ==
    \/ \E p \in Players, r \in RoomIds, n \in BoardSizes : start_game(p, r, n)
    \/ \E p \in Players, r \in RoomIds, b \in BoardInputs, pick \in 1..Cardinality(Players) :
          /\ r \in DOMAIN rooms => pick <= Len(rooms[r].players)
          /\ ready_board(p, r, b, pick)
    \/ \E job \in jobs : \E c \in job.pending : Deliver(job, c)
    \/ \E s \in SubIds : poll_next(s)

SpecBoards == InitLate /\ [][NextBoards]_vars


\* ------------------------------------------------------- rank numbering
\* slice::sort_by on the key of the entries, ascending; the sort is stable
RECURSIVE SortByKey(_)
SortByKey(s) ==
    IF s = << >> THEN << >>
    ELSE LET n == Len(s)
             front == SortByKey(SubSeq(s, 1, n - 1))
             x == s[n]
             k == Cardinality({i \in DOMAIN front : front[i].key <= x.key})
         IN SubSeq(front, 1, k) \o <<x>> \o SubSeq(front, k + 1, Len(front))

\* the loop over scored in Bluff::get_rankings and Boxes::get_rankings,
\* after i entries: last_score starts at the MAX of its type, above every
\* score, so the first entry always takes rank 1
RECURSIVE RankLoop(_, _)
RankLoop(scored, i) ==
    IF i = 1 THEN [last_rank |-> 1, last_score |-> scored[1].score]
    ELSE LET last == RankLoop(scored, i - 1)
         IN IF last.last_score > scored[i].score
            THEN [last_rank |-> last.last_rank + 1, last_score |-> scored[i].score]
            ELSE last

Ranks(scored) ==
    [i \in DOMAIN scored |->
        [rank |-> RankLoop(scored, i).last_rank, player |-> scored[i].id]]

\* -------------------------------------------------------------- Bluff
\* Bluff::get_rankings: the players by the number of cards they hold,
\* ascending
Bluff_get_rankings(players) ==
    LET scored == [i \in DOMAIN players |->
                      [score |-> Len(players[i].cards),
                       key |-> Len(players[i].cards),
                       id |-> players[i].id]]
    IN Ranks(SortByKey(scored))

\* -------------------------------------------------------------- Boxes
Unoccupied(id) == [kind |-> "Unoccupied", id |-> id]

Occupied(mov_no, occupied_by, id) ==
    [kind |-> "Occupied", mov_no |-> mov_no, occupied_by |-> occupied_by, id |-> id]

is_occupied(e) == e.kind = "Occupied"

\* the shape of an Array2, kept as a function over <<row, column>>
NRows(a) == SetMax({x[1] : x \in DOMAIN a})
NCols(a) == SetMax({x[2] : x \in DOMAIN a})

\* Boxes::start_game: from_shape_fn numbers the edges row by row, the
\* horizontal_edges array first; turn is the player choose() picked
Boxes_start_game(board_width, board_height, turn) ==
    [horizontal_edges |->
        [x \in (1..board_height) \X (1..(board_width + 1)) |->
            Unoccupied((x[1] - 1) * (board_width + 1) + x[2])],
     vertical_edges |->
        [x \in (1..(board_height + 1)) \X (1..board_width) |->
            Unoccupied(board_height * (board_width + 1)
                       + (x[1] - 1) * board_width + x[2])],
     turn |-> turn]

\* the edges [left, right, top, bottom] get_cells reads for cell (i, j)
CellEdges(boxes, i, j) ==
    <<boxes.horizontal_edges[<<i, j>>], boxes.horizontal_edges[<<i, j + 1>>],
      boxes.vertical_edges[<<i, j>>], boxes.vertical_edges[<<i + 1, j>>]>>

\* the owner get_cells computes for cell (i, j): with all four edges
\* occupied the player of the edge with the largest mov_no, else None
Claimant(boxes, i, j) ==
    LET edges == CellEdges(boxes, i, j)
    IN IF \A k \in 1..4 : is_occupied(edges[k])
       THEN LET last == CHOOSE k \in 1..4 :
                            \A m \in 1..4 : edges[m].mov_no <= edges[k].mov_no
            IN edges[last].occupied_by
       ELSE NoTurn

\* Cell::default()
DefaultCell == [occupied_by |-> NoTurn]

\* Boxes::get_cells on a square board (on any other the loop indexes past
\* an edge array and panics). Both branches hand the computed Cell to
\* Option::replace on the temporary Option that get_mut returned, which
\* swaps the reference held by that temporary: the array element is not
\* written and every cell is returned as Array2::default made it.
Boxes_get_cells(boxes) ==
    LET width == NRows(boxes.horizontal_edges)
        height == NCols(boxes.vertical_edges)
    IN [x \in (1..width) \X (1..height) |-> DefaultCell]

\* Boxes::get_score
Boxes_get_score(boxes, player_id) ==
    LET cells == Boxes_get_cells(boxes)
    IN Cardinality({x \in DOMAIN cells : cells[x].occupied_by = player_id})

\* Boxes::get_rankings: the players by score, descending (cmp reversed)
Boxes_get_rankings(boxes, players) ==
    LET scored == [i \in DOMAIN players |->
                      [score |-> Boxes_get_score(boxes, players[i].id),
                       key |-> 0 - Boxes_get_score(boxes, players[i].id),
                       id |-> players[i].id]]
    IN Ranks(SortByKey(scored))

\* Boxes::get_next_turn_player: NoTurn stands for None
Boxes_get_next_turn_player(boxes, players) ==
    LET cells == Boxes_get_cells(boxes)
    IN IF \/ \A x \in DOMAIN cells : cells[x].occupied_by # NoTurn
          \/ \A i \in DOMAIN players : players[i].send_channel = NoChannel
       THEN NoTurn
       ELSE LET position == Position(players, boxes.turn)
                n == Len(players)
                at(k) == players[((position + k - 1) % n) + 1]
            IN IF position = 0 THEN NoTurn
               ELSE LET k == CHOOSE k \in 1..n :
                                /\ at(k).send_channel # NoChannel
                                /\ \A j \in 1..(k - 1) :
                                      at(j).send_channel = NoChannel
                    IN at(k).id

\* all edges of the game, by id
Edges(boxes) ==
    {boxes.horizontal_edges[x] : x \in DOMAIN boxes.horizontal_edges}
    \cup {boxes.vertical_edges[x] : x \in DOMAIN boxes.vertical_edges}

\* the edge arrays with the edge of this id occupied
Occupy(a, mov_no, player_id, edge_id) ==
    [x \in DOMAIN a |->
        IF a[x].id = edge_id THEN Occupied(mov_no, player_id, edge_id) ELSE a[x]]

\* Boxes::handle_player_message, Move
Boxes_Move(boxes, players, player_id, edge_id) ==
    IF boxes.turn # player_id THEN Err("Not your Turn", boxes, players)
    ELSE LET cells == Boxes_get_cells(boxes)
             previous_cell_count ==
                 Cardinality({x \in DOMAIN cells : cells[x].occupied_by # NoTurn})
             mov_no ==
                 SetMax({IF is_occupied(e) THEN e.mov_no ELSE 0 : e \in Edges(boxes)}) + 1
         IN IF ~\E e \in Edges(boxes) : e.id = edge_id
            THEN Err("Cant find edge", boxes, players)
            ELSE IF \E e \in Edges(boxes) : e.id = edge_id /\ is_occupied(e)
            THEN Err("Edge already occupied", boxes, players)
            ELSE LET moved ==
                         [boxes EXCEPT
                            !.horizontal_edges = Occupy(@, mov_no, player_id, edge_id),
                            !.vertical_edges = Occupy(@, mov_no, player_id, edge_id)]
                     new_cells == Boxes_get_cells(moved)
                     new_cell_count ==
                         Cardinality({x \in DOMAIN new_cells :
                                         new_cells[x].occupied_by # NoTurn})
                     player == Boxes_get_next_turn_player(moved, players)
                 IN IF new_cell_count <= previous_cell_count /\ player # NoTurn
                    THEN Ok([moved EXCEPT !.turn = player], players)
                    ELSE Ok(moved, players)

\* Boxes::is_game_end
Boxes_is_game_end(boxes, players) ==
    LET cells == Boxes_get_cells(boxes)
    IN \/ \A i \in DOMAIN players : players[i].send_channel = NoChannel
       \/ \A x \in DOMAIN cells : cells[x].occupied_by # NoTurn


\* ------------------------------------------------- calls of pure functions
\* the well-formed grids, of sizes 1, 2 and 3, that get_score is called on
ScoreBoards ==
    { << <<1>> >>,
      << <<1, 2>>, <<3, 4>> >>,
      << <<4, 1>>, <<3, 2>> >>,
      << <<1, 2, 3>>, <<4, 5, 6>>, <<7, 8, 9>> >>,
      << <<5, 9, 1>>, <<3, 7, 2>>, <<8, 4, 6>> >> }

SelectedCell(val, player_id) == [cell_value |-> val, selected_by |-> player_id]

\* the values of S in ascending order
RECURSIVE Ascending(_)
Ascending(S) ==
    IF S = {} THEN << >>
    ELSE <<SetMin(S)>> \o Ascending(S \ {SetMin(S)})

Reverse(s) == [i \in DOMAIN s |-> s[Len(s) + 1 - i]]

\* the call histories over the values of an n x n board: every set of
\* values, called in ascending or in descending order by player a
Histories(n) ==
    LET cells(s) == [i \in DOMAIN s |-> SelectedCell(s[i], "a")]
    IN UNION {{cells(Ascending(S)), cells(Reverse(Ascending(S)))} :
                S \in SUBSET (1..(n * n))}

\* a call of a pure function with its arguments, and its return
Call(fn, args) == [op |-> "call", err |-> "", fn |-> fn, args |-> args, result |-> 0]
Return(call, result) == [call EXCEPT !.op = "return", !.result = result]

\* the calls of get_score on these boards
ScoreCalls(boards) ==
    UNION {{Call("get_score", [board |-> b, selected_cells |-> h]) :
                h \in Histories(Len(b))} : b \in boards}

\* the 3 x 3 boards of the games whose rankings are taken
RankBoards ==
    { << <<1, 2, 3>>, <<4, 5, 6>>, <<7, 8, 9>> >>,
      << <<1, 2, 3>>, <<4, 7, 8>>, <<5, 9, 6>> >>,
      << <<5, 9, 1>>, <<3, 7, 2>>, <<8, 4, 6>> >> }

\* a running game of a and b with the boards and the call history
RankGame(h) ==
    [board_size |-> 3, game_state |-> "GameRunning", ready |-> << >>,
     turn |-> "a", selected_numbers |-> h]

RankRoster(x, y, ca, cb) ==
    <<[id |-> "a", send_channel |-> ca, board |-> x],
      [id |-> "b", send_channel |-> cb, board |-> y]>>

\* the history can be played: with a and b connected the game has not
\* ended before its last call
InPlay(h, players) ==
    \A k \in 0..(Len(h) - 1) : ~is_game_end(RankGame(SubSeq(h, 1, k)), players)

\* get_rankings as handle_game_end calls it: on the roster with its
\* channels cleared, for a history that can be played, a and b holding
\* any two of these boards
RankCalls(boards) ==
    UNION {{Call("get_rankings",
                 [game |-> RankGame(h), players |-> RankRoster(x, y, NoChannel, NoChannel)]) :
                h \in {g \in Histories(3) : InPlay(g, RankRoster(x, y, 1, 2))}} :
            x \in boards, y \in boards}

\* Bluff players holding 0, 1 or 2 cards each; the cards are numbered
\* 0..51 as Card::from takes them
BluffSizes == 0..2
BluffHand(first, n) == [k \in 1..n |-> first + k - 1]
BluffRosters ==
    {<<[id |-> "a", cards |-> BluffHand(0, x)],
       [id |-> "b", cards |-> BluffHand(2, y)]>> : x \in BluffSizes, y \in BluffSizes}
    \cup {<<[id |-> "a", cards |-> BluffHand(0, x)],
            [id |-> "b", cards |-> BluffHand(2, y)],
            [id |-> "c", cards |-> BluffHand(4, z)]>> :
              x \in BluffSizes, y \in BluffSizes, z \in BluffSizes}
BluffCalls == {Call("Bluff_get_rankings", [players |-> ps]) : ps \in BluffRosters}

\* Boxes games of a and b as start_game makes them, on square boards
BoxesSizes == {1, 2}
BoxesRoster(ca, cb) ==
    <<[id |-> "a", send_channel |-> ca], [id |-> "b", send_channel |-> cb]>>
BoxesGames ==
    {Call("Boxes", [game |-> Boxes_start_game(n, n, t), players |-> BoxesRoster(1, 2)]) :
        n \in BoxesSizes, t \in Players}

\* the calls that are made: get_score on a board and a history over the
\* values of that board, get_rankings on a game and its roster, the Bluff
\* ranking on a roster, and the Boxes functions on a game in play
InitPure ==
    /\ rooms = [r \in {} |-> Room_new("a")]
    /\ subs = [s \in Channels |-> NoSub]
    /\ fin = [s \in Channels |-> "none"]
    /\ jobs = {}
    /\ games = 0
    /\ ret \in ScoreCalls(ScoreBoards) \cup RankCalls(RankBoards) \cup BluffCalls \cup BoxesGames

\* Bingo::get_rankings returns
get_rankings_call ==
    /\ ret.op = "call" /\ ret.fn = "get_rankings"
    /\ ret' = Return(ret, get_rankings(ret.args.game, ret.args.players))
    /\ UNCHANGED <<rooms, subs, fin, jobs, games>>

\* Board::get_score returns
get_score_call ==
    /\ ret.op = "call" /\ ret.fn = "get_score"
    /\ ret' = Return(ret, get_score(ret.args.board, ret.args.selected_cells))
    /\ UNCHANGED <<rooms, subs, fin, jobs, games>>

\* Bluff::get_rankings returns
Bluff_get_rankings_call ==
    /\ ret.op = "call" /\ ret.fn = "Bluff_get_rankings"
    /\ ret' = Return(ret, Bluff_get_rankings(ret.args.players))
    /\ UNCHANGED <<rooms, subs, fin, jobs, games>>

\* the unoccupied edge with the smallest id
FirstFree(boxes) ==
    LET free == {e.id : e \in {f \in Edges(boxes) : ~is_occupied(f)}}
    IN IF free = {} THEN 0 ELSE SetMin(free)

\* a Move of the Boxes game in play is accepted; on the 2 x 2 board the
\* edges are taken in the order of their ids
Boxes_move(player_id, edge_id) ==
    /\ ret.op = "call" /\ ret.fn = "Boxes"
    /\ NRows(ret.args.game.horizontal_edges) = 1 \/ edge_id = FirstFree(ret.args.game)
    /\ LET res == Boxes_Move(ret.args.game, ret.args.players, player_id, edge_id)
       IN /\ res.err = ""
          /\ ret' = [ret EXCEPT !.args.game = res.game]
    /\ UNCHANGED <<rooms, subs, fin, jobs, games>>

\* a player of the Boxes game in play loses the connection
Boxes_disconnect(player_id) ==
    /\ ret.op = "call" /\ ret.fn = "Boxes"
    /\ \E i \in DOMAIN ret.args.players :
          /\ ret.args.players[i].id = player_id
          /\ ret.args.players[i].send_channel # NoChannel
          /\ ret' = [ret EXCEPT !.args.players[i].send_channel = NoChannel]
    /\ UNCHANGED <<rooms, subs, fin, jobs, games>>

\* Boxes::is_game_end returns
Boxes_is_game_end_call ==
    /\ ret.op = "call" /\ ret.fn = "Boxes"
    /\ ret' = Return([ret EXCEPT !.fn = "Boxes_is_game_end"],
                     Boxes_is_game_end(ret.args.game, ret.args.players))
    /\ UNCHANGED <<rooms, subs, fin, jobs, games>>

\* Boxes::get_rankings returns
Boxes_get_rankings_call ==
    /\ ret.op = "call" /\ ret.fn = "Boxes"
    /\ ret' = Return([ret EXCEPT !.fn = "Boxes_get_rankings"],
                     Boxes_get_rankings(ret.args.game, ret.args.players))
    /\ UNCHANGED <<rooms, subs, fin, jobs, games>>

BoxesEdgeIds == 1..12

NextPure ==
    \/ get_score_call
    \/ get_rankings_call
    \/ Bluff_get_rankings_call
    \/ \E p \in Players, e \in BoxesEdgeIds : Boxes_move(p, e)
    \/ \E p \in Players : Boxes_disconnect(p)
    \/ Boxes_is_game_end_call
    \/ Boxes_get_rankings_call

SpecPure == InitPure /\ [][NextPure]_vars


\* ------------------------------------------------------------- properties
\* the step in which the Drop task of subscription s runs its write section
FinalizerStep(s) == fin[s] = "spawned" /\ fin'[s] \in {"cleaned", "removed"}

\* some roster entry other than player_id's has a channel
OthersConnected(room, player_id) ==
    \E i \in DOMAIN room.players :
        /\ room.players[i].id # player_id
        /\ room.players[i].send_channel # NoChannel

\* the turn of the room's game, or of the game it archived when it ended
TurnOf(room) ==
    IF room.state = "Game" THEN room.game.turn ELSE room.last_game.turn

GameToLobby(r) ==
    /\ r \in DOMAIN rooms /\ r \in DOMAIN rooms'
    /\ rooms[r].state = "Game" /\ rooms'[r].state = "Lobby"

\* no broadcast is in flight, no subscription is being set up and no Drop
\* task is running
Quiescent ==
    /\ jobs = {}
    /\ \A s \in SubIds : fin[s] \in {"none", "done"} /\ subs[s].status # "connecting"

\* C1: when the Drop task of a subscription runs on a room of the registry,
\* the room is in the registry afterwards exactly when a roster entry other
\* than the departing player's has a channel.
C1_FinalizerRemovesRoomIffNoChannel ==
    [][\A s \in SubIds :
          (FinalizerStep(s) /\ subs[s].room \in DOMAIN rooms)
          => (subs[s].room \in DOMAIN rooms'
                <=> OthersConnected(rooms[subs[s].room], subs[s].player))]_vars

\* a Drop task has just removed the room of its subscription
C1_RoomRemovedByFinalizer ==
    \E s \in SubIds :
        /\ BetweenBlocks(s)
        /\ ret.op = "drop"
        /\ subs[s].room \notin DOMAIN rooms

\* C2: in a running game with exactly two connected players, the Drop task
\* of the turn-holder's subscription keeps the room in the registry and
\* leaves the turn with a connected player other than the departing one.
C2_FinalizerPassesTurn ==
    [][\A s \in SubIds :
          LET r == subs[s].room
              p == subs[s].player
          IN (/\ FinalizerStep(s)
              /\ r \in DOMAIN rooms
              /\ rooms[r].state = "Game"
              /\ is_game_running(rooms[r].game)
              /\ rooms[r].game.turn = p
              /\ Cardinality(Connected(rooms[r].players)) = 2
              /\ \E i \in Connected(rooms[r].players) : rooms[r].players[i].id = p)
             => /\ r \in DOMAIN rooms'
                /\ \E i \in Connected(rooms'[r].players) :
                      /\ rooms'[r].players[i].id = TurnOf(rooms'[r])
                      /\ rooms'[r].players[i].id # p]_vars

\* the turn-holder's subscription has ended in a running game with two
\* connected players and its Drop task is about to take the write lock
C2_TurnHolderDropped ==
    \E s \in SubIds :
        /\ fin[s] = "spawned"
        /\ subs[s].room \in DOMAIN rooms
        /\ LET room == rooms[subs[s].room]
           IN /\ room.state = "Game"
              /\ is_game_running(room.game)
              /\ room.game.turn = subs[s].player
              /\ Cardinality(Connected(room.players)) = 2
              /\ \E i \in Connected(room.players) : room.players[i].id = subs[s].player

\* C3: no broadcast is being sent while the registry lock is held.
C3_NoLockHeldWhileSending ==
    \A job \in jobs : job.pending # {} => ~ReadLocked

\* C4: a send of a client mutation's broadcast never has to wait: each
\* channel it still has to send to is closed or has room.
C4_MutationNeverWaitsOnFullChannel ==
    \A job \in jobs :
        job.task = "req"
        => \A c \in job.pending :
              subs[c].status = "closed" \/ Len(subs[c].buf) < ChannelCapacity

\* C5 as stated: after a Game to Lobby transition no entry of the new Lobby
\* roster has a channel.
C5_LobbyEntriesHaveNoChannel ==
    [][\A r \in RoomIds :
          GameToLobby(r)
          => \A i \in DOMAIN rooms'[r].players :
                rooms'[r].players[i].send_channel = NoChannel]_vars

\* C5 amended: after a Game to Lobby transition every entry of the new Lobby
\* roster has the channel its game roster entry had, except the entry of
\* the player whose Drop task made the transition, which has none.
C5_LobbyEntriesKeepChannels ==
    [][\A r \in RoomIds :
          GameToLobby(r)
          => \A i \in DOMAIN rooms'[r].players :
                LET e == rooms'[r].players[i]
                    j == Position(rooms[r].players, e.id)
                IN /\ j # 0
                   /\ IF \E s \in SubIds : FinalizerStep(s) /\ subs[s].player = e.id
                      THEN e.send_channel = NoChannel
                      ELSE e.send_channel = rooms[r].players[j].send_channel]_vars

\* a move has just ended the game and a player of the new Lobby roster has
\* the channel of a subscription that is still open
C5_ChannelCarriedIntoLobby ==
    /\ ret.op = "player_move" /\ ret.err = ""
    /\ \E r \in DOMAIN rooms :
          /\ rooms[r].state = "Lobby"
          /\ rooms[r].last_game.present
          /\ \E i \in Connected(rooms[r].players) :
                subs[rooms[r].players[i].send_channel].status = "live"

\* C6: when no operation is in progress, a roster entry has a channel only
\* if its player has a live subscription to the room, and every live
\* subscription's player has a channel in the roster of its room.
C6_ChannelIffLiveSubscription ==
    Quiescent
    => /\ \A r \in DOMAIN rooms : \A i \in Connected(rooms[r].players) :
             \E s \in SubIds :
                /\ subs[s].status = "live"
                /\ subs[s].player = rooms[r].players[i].id
                /\ subs[s].room = r
       /\ \A s \in SubIds :
             subs[s].status = "live"
             => /\ subs[s].room \in DOMAIN rooms
                /\ \E i \in Connected(rooms[subs[s].room].players) :
                      rooms[subs[s].room].players[i].id = subs[s].player

\* C7: when the turn-holder of a running game leaves the room and another
\* connected player who has not completed the board stays, the turn of the
\* game that goes on does not name the removed player.
C7_LeavePassesTurn ==
    [][\A p \in ThreePlayers, r \in RoomIds :
          (/\ r \in DOMAIN rooms
           /\ rooms[r].state = "Game"
           /\ is_game_running(rooms[r].game)
           /\ rooms[r].game.turn = p
           /\ \E i \in DOMAIN rooms[r].players :
                 /\ rooms[r].players[i].id # p
                 /\ Eligible(rooms[r].players[i], rooms[r].game.selected_numbers)
           /\ disconnect(p, r)
           /\ ret'.err = "")
          => (rooms'[r].state = "Game" => rooms'[r].game.turn # p)]_vars

\* C8: a step in which a client operation returns a failure leaves the
\* registry and every room as they were.
C8_FailureChangesNothing ==
    [][ret'.err # "" => rooms' = rooms]_vars

\* C9: a room goes from Lobby to Game only in a start_game step, and a
\* start_game on a room in Game fails and leaves every room as it was.
C9_GameStartsOnlyByStartGame ==
    [][/\ \A r \in RoomIds :
             (/\ r \in DOMAIN rooms'
              /\ rooms'[r].state = "Game"
              /\ (r \in DOMAIN rooms => rooms[r].state = "Lobby"))
             => /\ r \in DOMAIN rooms
                /\ \E p \in ThreePlayers, n \in BoardSizes : start_game(p, r, n)
       /\ \A p \in ThreePlayers, r \in RoomIds, n \in BoardSizes :
             (/\ r \in DOMAIN rooms
              /\ rooms[r].state = "Game"
              /\ start_game(p, r, n))
             => /\ ret'.err = "Game Already Started"
                /\ rooms' = rooms]_vars

\* a start_game has just failed on a room that is in a game
C9_StartRefusedInGame ==
    /\ ret = Returned("start_game", "", "Game Already Started")
    /\ \E r \in DOMAIN rooms : rooms[r].state = "Game"

\* C10: a room goes from Game to Lobby only in a leave_room, Drop task, move
\* or board submission at which is_game_end is true of the game and the
\* roster the operation has produced.
C10_GameEndsOnlyWhenEndPredicateHolds ==
    [][\A r \in RoomIds :
          GameToLobby(r)
          => \/ \E p \in ThreePlayers :
                   /\ disconnect(p, r)
                   /\ LET m == remove_player(rooms[r], p).room
                      IN is_game_end(m.game, m.players)
             \/ \E s \in SubIds :
                   /\ drop_cleanup(s)
                   /\ subs[s].room = r
                   /\ LET m == disconnect_player(rooms[r], subs[s].player).room
                      IN is_game_end(m.game, m.players)
             \/ \E p \in ThreePlayers, n \in Numbers :
                   /\ player_move(p, r, n)
                   /\ LET e == Bingo_Move(rooms[r].game, rooms[r].players, p, n)
                      IN e.err = "" /\ is_game_end(e.game, e.players)
             \/ \E p \in ThreePlayers, b \in BoardInputs, pick \in 1..Cardinality(ThreePlayers) :
                   /\ pick <= Len(rooms[r].players)
                   /\ ready_board(p, r, b, pick)
                   /\ LET e == Bingo_ReadyBoard(rooms[r].game, rooms[r].players,
                                                p, b, pick)
                      IN e.err = "" /\ is_game_end(e.game, e.players)]_vars

\* a leave_room has just ended a running game
C10_GameEndedByLeave ==
    /\ ret.op = "disconnect" /\ ret.err = ""
    /\ \E r \in DOMAIN rooms :
          rooms[r].state = "Lobby" /\ rooms[r].last_game.present

\* C11: in every state between two operations, no room of the registry is
\* in Game mode with is_game_end true of its game and roster.
C11_NoEndedGameInGameMode ==
    \A r \in DOMAIN rooms :
        rooms[r].state = "Game"
        => ~is_game_end(rooms[r].game, rooms[r].players)

\* a move has just completed a board and the room it was made in has left
\* Game mode with the game archived
C11_MoveEndedGame ==
    /\ ret.op = "player_move" /\ ret.err = ""
    /\ \E r \in DOMAIN rooms :
          /\ rooms[r].state = "Lobby"
          /\ rooms[r].last_game.present
          /\ \E i \in DOMAIN rooms[r].last_game.leader_board :
                rooms[r].last_game.leader_board[i].rank = 1

\* the leaderboard has exactly one entry for each entry of the roster
OneRankEach(leader_board, players) ==
    /\ Len(leader_board) = Len(players)
    /\ \A i \in DOMAIN players :
          Cardinality({k \in DOMAIN leader_board :
                          leader_board[k].player = players[i].id}) = 1

\* C12 as stated: after a Game to Lobby transition the Lobby's last_game is
\* populated and its leaderboard has exactly one entry for each player of
\* the roster the game ended with.
C12_EndedGameAlwaysArchived ==
    [][\A r \in RoomIds :
          GameToLobby(r)
          => /\ rooms'[r].last_game.present
             /\ OneRankEach(rooms'[r].last_game.leader_board,
                            rooms'[r].players)]_vars

\* C12 amended: after a Game to Lobby transition the Lobby's last_game is
\* populated exactly when the game had left BoardCreation (it was running
\* before the step, or the step is the board submission that set it
\* running), and then its leaderboard has exactly one entry for each player
\* of the roster the game ended with.
C12_RunningGameArchived ==
    [][\A r \in RoomIds :
          GameToLobby(r)
          => /\ rooms'[r].last_game.present
                  <=> (is_game_running(rooms[r].game) \/ ret'.op = "ready_board")
             /\ rooms'[r].last_game.present
                  => OneRankEach(rooms'[r].last_game.leader_board,
                                 rooms'[r].players)]_vars

\* a Drop task has just ended a running game of two and both players are
\* on the leaderboard of the new Lobby
C12_TwoRanksAfterDrop ==
    /\ ret.op = "drop"
    /\ \E r \in DOMAIN rooms :
          /\ rooms[r].state = "Lobby"
          /\ rooms[r].last_game.present
          /\ Len(rooms[r].players) = 2
          /\ Len(rooms[r].last_game.leader_board) = 2

\* the room is in a running game in which at least two players are
\* connected and some connected player has not completed the board
TurnCanPass(room) ==
    /\ room.state = "Game"
    /\ is_game_running(room.game)
    /\ Cardinality(Connected(room.players)) >= 2
    /\ \E i \in Connected(room.players) :
          /\ room.players[i].board # NoBoard
          /\ ~has_completed(room.players[i].board, room.game.selected_numbers)

\* the roster entry of player_id has a channel and a board that is not
\* complete
CanPlay(room, player_id) ==
    \E i \in DOMAIN room.players :
        /\ room.players[i].id = player_id
        /\ room.players[i].send_channel # NoChannel
        /\ room.players[i].board # NoBoard
        /\ ~has_completed(room.players[i].board, room.game.selected_numbers)

RECURSIVE TurnsFrom(_, _, _)
TurnsFrom(game, players, k) ==
    IF k = 0 THEN << >>
    ELSE LET passed == GameData_change_turn(game, players)
         IN <<passed.turn>> \o TurnsFrom(passed, players, k - 1)

\* the ids of the roster entries that have a channel and a board that is
\* not complete
EligibleIds(room) == {id \in ThreePlayers : CanPlay(room, id)}

\* turns visits every id of ids exactly once, in the cyclic order of the
\* roster, and then starts again with the first
CyclesThrough(turns, ids, players) ==
    LET e == Cardinality(ids)
    IN /\ Len(turns) = e + 1
       /\ {turns[i] : i \in 1..e} = ids
       /\ turns[e + 1] = turns[1]
       /\ Cardinality({i \in 1..e :
              Position(players, turns[i + 1]) < Position(players, turns[i])}) = 1

\* C14: in a running game with at least two players who have a channel and
\* a board that is not complete, passing the turn again and again, nothing
\* else changing, visits each of those players exactly once, in roster
\* order, before any of them has the turn a second time.
C14_TurnsCycleThroughEligible ==
    \A r \in DOMAIN rooms :
        (/\ rooms[r].state = "Game"
         /\ is_game_running(rooms[r].game)
         /\ Cardinality(EligibleIds(rooms[r])) >= 2)
        => CyclesThrough(TurnsFrom(rooms[r].game, rooms[r].players,
                                   Cardinality(EligibleIds(rooms[r])) + 1),
                         EligibleIds(rooms[r]), rooms[r].players)

\* the score of a roster entry as get_rankings takes it: 0 without a board
Score(p, game) ==
    IF p.board = NoBoard THEN 0 ELSE get_score(p.board, game.selected_numbers)

\* the connected roster entries whose score is below the board size
StillBelow(game, players) ==
    {i \in Connected(players) : Score(players[i], game) < game.board_size}

EndIffAtMostOneBelow(game, players) ==
    is_game_running(game)
    => (is_game_end(game, players) <=> Cardinality(StillBelow(game, players)) <= 1)

\* the game and roster on which handle_game_end evaluates is_game_end when
\* a room in Game takes a move, a board, a leave_room or a Drop task
EndTestInputs(room) ==
    {Bingo_Move(room.game, room.players, p, n) : p \in ThreePlayers, n \in Numbers}
    \cup {Bingo_ReadyBoard(room.game, room.players, x[1], x[2], x[3]) :
            x \in {y \in ThreePlayers \X BoardInputs \X DOMAIN room.players :
                      Board_new(y[2], room.game.board_size)}}
    \cup {LET m == UpdateTurn(remove_player(room, p).room, p)
          IN Ok(m.game, m.players) : p \in ThreePlayers}
    \cup {LET m == UpdateTurn(disconnect_player(room, p).room, p)
          IN Ok(m.game, m.players) : p \in ThreePlayers}

\* C15: on every running game and roster that handle_game_end gets to test,
\* is_game_end is true exactly when at most one connected player has a
\* score below the board size.
C15_EndIffAtMostOneBelowSize ==
    \A r \in DOMAIN rooms :
        rooms[r].state = "Game"
        => \A e \in EndTestInputs(rooms[r]) : EndIffAtMostOneBelow(e.game, e.players)

AllHaveBoards(players) == \A i \in DOMAIN players : players[i].board # NoBoard

\* C16: a board submission takes the game out of BoardCreation only with a
\* roster in which every player has a board, and in every running game
\* every roster player has a board.
C16_RunningGameHasAllBoards ==
    [][/\ \A r \in DOMAIN rooms' :
             (rooms'[r].state = "Game" /\ is_game_running(rooms'[r].game))
             => AllHaveBoards(rooms'[r].players)
       /\ \A r \in RoomIds, p \in ThreePlayers, b \in BoardInputs,
             pick \in 1..Cardinality(ThreePlayers) :
             (/\ r \in DOMAIN rooms
              /\ rooms[r].state = "Game"
              /\ pick <= Len(rooms[r].players)
              /\ ready_board(p, r, b, pick)
              /\ ret'.err = "")
             => LET e == Bingo_ReadyBoard(rooms[r].game, rooms[r].players,
                                          p, b, pick)
                IN is_game_running(e.game) => AllHaveBoards(e.players)]_vars

\* no value occurs twice in the call history
NoRepeat(selected_cells) ==
    \A i, j \in DOMAIN selected_cells :
        selected_cells[i].cell_value = selected_cells[j].cell_value => i = j

\* C17 as stated: a move that names a number of the call history fails with
\* "Invalid move" and leaves the room as it was, and no call history has
\* the same value twice.
C17_CalledNumberIsInvalidMove ==
    [][/\ \A p \in ThreePlayers, r \in RoomIds, n \in Numbers :
             (/\ r \in DOMAIN rooms
              /\ rooms[r].state = "Game"
              /\ Called(rooms[r].game.selected_numbers, n)
              /\ player_move(p, r, n))
             => (ret'.err = "Invalid move" /\ rooms' = rooms)
       /\ \A r \in DOMAIN rooms' :
             rooms'[r].state = "Game" => NoRepeat(rooms'[r].game.selected_numbers)]_vars

\* C17 amended: a move that names a number of the call history fails, with
\* "Invalid move" when the turn-holder makes it and with "Not your turn"
\* when another player does, and leaves the room as it was; no call
\* history has the same value twice.
C17_CalledNumberIsRejected ==
    [][/\ \A p \in ThreePlayers, r \in RoomIds, n \in Numbers :
             (/\ r \in DOMAIN rooms
              /\ rooms[r].state = "Game"
              /\ Called(rooms[r].game.selected_numbers, n)
              /\ player_move(p, r, n))
             => /\ ret'.err = IF rooms[r].game.turn = p THEN "Invalid move"
                              ELSE "Not your turn"
                /\ rooms' = rooms
       /\ \A r \in DOMAIN rooms' :
             rooms'[r].state = "Game" => NoRepeat(rooms'[r].game.selected_numbers)]_vars

\* the turn-holder has just named a number of the call history and the
\* move was refused
C17_RepeatedNumberRefused ==
    /\ ret = Returned("player_move", "", "Invalid move")
    /\ \E r \in DOMAIN rooms :
          /\ rooms[r].state = "Game"
          /\ rooms[r].game.selected_numbers # << >>

\* C18: a move is accepted only from the turn-holder of a running game; a
\* move by another player in a running game fails with "Not your turn"
\* and leaves every room as it was; in BoardCreation can_change_turn is
\* false for every player and every move fails with "Game Not Running"
\* and leaves every room as it was.
C18_OnlyTurnHolderMoves ==
    [][\A p \in ThreePlayers, r \in RoomIds, n \in Numbers :
          (/\ r \in DOMAIN rooms
           /\ ret'.op = "player_move"
           /\ player_move(p, r, n))
          => /\ ret'.err = ""
                  => /\ rooms[r].state = "Game"
                     /\ is_game_running(rooms[r].game)
                     /\ rooms[r].game.turn = p
             /\ (/\ rooms[r].state = "Game"
                 /\ is_game_running(rooms[r].game)
                 /\ rooms[r].game.turn # p)
                => (ret'.err = "Not your turn" /\ rooms' = rooms)
             /\ (rooms[r].state = "Game" /\ ~is_game_running(rooms[r].game))
                => /\ \A q \in ThreePlayers : ~can_change_turn(rooms[r].game, q)
                   /\ ret'.err = "Game Not Running"
                   /\ rooms' = rooms]_vars

\* a player who does not hold the turn of a running game has just tried to
\* move and was refused
C18_MoveOutOfTurnRefused ==
    /\ ret = Returned("player_move", "", "Not your turn")
    /\ \E r \in DOMAIN rooms :
          /\ rooms[r].state = "Game"
          /\ is_game_running(rooms[r].game)
          /\ HasPlayer(rooms[r].players, rooms[r].game.turn)

\* the number of roster entries with the id
Entries(players, id) == Cardinality({i \in DOMAIN players : players[i].id = id})

\* C19: a join_lobby on a room in Lobby succeeds; when the id is in the
\* roster it leaves every room as it was, otherwise it appends one entry
\* without a channel; afterwards the roster has exactly one entry with the
\* id, and no roster ever has two entries with the same id.
C19_AddPlayerIdempotentInLobby ==
    [][/\ \A p \in ThreePlayers, r \in RoomIds :
             (/\ r \in DOMAIN rooms
              /\ rooms[r].state = "Lobby"
              /\ ret'.op = "join_lobby"
              /\ join_lobby(p, r))
             => /\ ret'.err = ""
                /\ IF HasPlayer(rooms[r].players, p)
                   THEN rooms' = rooms
                   ELSE /\ Len(rooms'[r].players) = Len(rooms[r].players) + 1
                        /\ SubSeq(rooms'[r].players, 1, Len(rooms[r].players))
                              = rooms[r].players
                /\ Entries(rooms'[r].players, p) = 1
       /\ \A r \in DOMAIN rooms' : \A p \in ThreePlayers :
             Entries(rooms'[r].players, p) <= 1]_vars

\* a join_lobby has just succeeded for the only player of a Lobby roster,
\* whose entry has a channel: the player was in the roster before
\* (add_player gives a new entry no channel)
C19_RepeatedJoinKeptChannel ==
    /\ ret = Returned("join_lobby", "", "")
    /\ \E r \in DOMAIN rooms :
          /\ rooms[r].state = "Lobby"
          /\ Len(rooms[r].players) = 1
          /\ rooms[r].players[1].send_channel # NoChannel

\* C20: a join_lobby on a room in Game succeeds exactly when the id is in
\* the game roster; it leaves every room as it was either way, and for an
\* id that is not in the roster it fails with "Game already running" and
\* starts no broadcast.
C20_JoinInGameOnlyForRoster ==
    [][\A p \in ThreePlayers, r \in RoomIds :
          (/\ r \in DOMAIN rooms
           /\ rooms[r].state = "Game"
           /\ ret'.op = "join_lobby"
           /\ join_lobby(p, r))
          => /\ ret'.err = "" <=> HasPlayer(rooms[r].players, p)
             /\ rooms' = rooms
             /\ ~HasPlayer(rooms[r].players, p)
                  => (ret'.err = "Game already running" /\ jobs' = jobs)]_vars

\* a player who is not in the roster has just been refused by a room that
\* is in a game
C20_LatecomerRefused ==
    /\ ret = Returned("join_lobby", "", "Game already running")
    /\ jobs = {}
    /\ \E r \in DOMAIN rooms :
          /\ rooms[r].state = "Game"
          /\ Len(rooms[r].players) = 2

\* the lines of an n x n grid, each a sequence of n cell positions: rows,
\* columns, the two diagonals
Row(n, k) == [t \in 1..n |-> <<k, t>>]
Column(n, k) == [t \in 1..n |-> <<t, k>>]
Diagonal(n) == [t \in 1..n |-> <<t, t>>]
AntiDiagonal(n) == [t \in 1..n |-> <<t, n + 1 - t>>]

\* every cell value of the line is in the call history
Cleared(numbers, line, selected_cells) ==
    \A t \in DOMAIN line :
        numbers[line[t][1]][line[t][2]]
            \in {selected_cells[k].cell_value : k \in DOMAIN selected_cells}

\* the number of cleared lines among the rows, the columns and the two
\* diagonals
ClearedLines(numbers, selected_cells) ==
    LET n == Len(numbers)
        one(line) == IF Cleared(numbers, line, selected_cells) THEN 1 ELSE 0
    IN Cardinality({k \in 1..n : Cleared(numbers, Row(n, k), selected_cells)})
       + Cardinality({k \in 1..n : Cleared(numbers, Column(n, k), selected_cells)})
       + one(Diagonal(n)) + one(AntiDiagonal(n))

\* C21: for a well-formed n x n board and a call history, get_score returns
\* the number of lines, among the rows, the columns and the two diagonals,
\* whose cell values are all in the history; it returns 0 for the empty
\* history, and no number appended to the history gives a smaller score.
C21_ScoreCountsClearedLines ==
    (ret.op = "return" /\ ret.fn = "get_score")
    => LET numbers == ret.args.board
           selected_cells == ret.args.selected_cells
           n == Len(numbers)
       IN /\ ret.result = ClearedLines(numbers, selected_cells)
          /\ selected_cells = << >> => ret.result = 0
          /\ \A v \in 1..(n * n) :
                get_score(numbers, Append(selected_cells, SelectedCell(v, "b")))
                    >= ret.result

\* get_score has returned 2 or more for a 3 x 3 board after five calls:
\* two lines that cross are cleared
C21_SeveralLinesCleared ==
    /\ ret.op = "return" /\ ret.fn = "get_score"
    /\ Len(ret.args.board) = 3
    /\ Len(ret.args.selected_cells) = 5
    /\ ret.result >= 2

\* the entry of the roster with the id
EntryOf(players, id) == players[Position(players, id)]

\* the score of p over the first k calls, capped at cap
ScoreAt(p, game, k, cap) ==
    LET raw == IF p.board = NoBoard THEN 0
               ELSE get_score(p.board, SubSeq(game.selected_numbers, 1, k))
    IN IF raw > cap THEN cap ELSE raw

\* the key of p: its score over the whole history and the length of the
\* shortest prefix of the history that gives this score
RankKey(p, game, cap) ==
    LET len == Len(game.selected_numbers)
        score == ScoreAt(p, game, len, cap)
    IN [score |-> score,
        at |-> SetMin({k \in 0..len : ScoreAt(p, game, k, cap) = score})]

\* x is placed strictly before y: higher score, or the same score reached
\* on a shorter prefix
PlacedBefore(x, y) ==
    x.score > y.score \/ (x.score = y.score /\ x.at < y.at)

\* the list has every roster player once, no player of it is placed
\* strictly before a player listed ahead of it, and rank numbers do not
\* decrease along the list
RankedBy(ranks, game, players, cap) ==
    /\ OneRankEach(ranks, players)
    /\ \A i, j \in DOMAIN ranks :
          i < j
          => /\ ~PlacedBefore(RankKey(EntryOf(players, ranks[j].player), game, cap),
                              RankKey(EntryOf(players, ranks[i].player), game, cap))
             /\ ranks[i].rank <= ranks[j].rank

\* the largest score a board can have: all rows, columns and diagonals
MaxPoints(game) == 2 * game.board_size + 2

\* C22 as stated: get_rankings lists the players by the board's score over
\* the call history, descending, then by the shortest prefix that gives
\* this score, ascending, with rank numbers that do not decrease.
C22_RankedByBoardScore ==
    (ret.op = "return" /\ ret.fn = "get_rankings")
    => RankedBy(ret.result, ret.args.game, ret.args.players,
                MaxPoints(ret.args.game))

\* C22 amended: get_rankings lists the players by the board's score capped
\* at the board size, descending, then by the shortest prefix that gives
\* this capped score, ascending, with rank numbers that do not decrease.
C22_RankedByCappedScore ==
    (ret.op = "return" /\ ret.fn = "get_rankings")
    => RankedBy(ret.result, ret.args.game, ret.args.players,
                ret.args.game.board_size)

\* get_rankings has listed b, the second of the roster, ahead of a with a
\* smaller rank number, both having scored
C22_SecondOfRosterListedFirst ==
    /\ ret.op = "return" /\ ret.fn = "get_rankings"
    /\ Len(ret.result) = 2
    /\ ret.result[1].player = "b"
    /\ ret.result[1].rank < ret.result[2].rank
    /\ \A i \in 1..2 : Score(ret.args.players[i], ret.args.game) > 0

\* the rank numbers of a list whose entries have these comparison keys:
\* the first is 1, and each next one is the same where the key is the
\* same and one more where the key changes
NumberedByKey(ranks, keys) ==
    /\ Len(ranks) > 0 => ranks[1].rank = 1
    /\ \A i \in 1..(Len(ranks) - 1) :
          ranks[i + 1].rank
              = ranks[i].rank + (IF keys[i] = keys[i + 1] THEN 0 ELSE 1)

\* the comparison keys of the players of a returned ranking, in the order
\* of the list: capped score and prefix length in Bingo, number of cards
\* held in Bluff, number of cells owned in Boxes
KeysOf(call) ==
    [i \in DOMAIN call.result |->
        LET p == EntryOf(call.args.players, call.result[i].player)
        IN IF call.fn = "get_rankings"
           THEN RankKey(p, call.args.game, call.args.game.board_size)
           ELSE IF call.fn = "Bluff_get_rankings"
           THEN Len(p.cards)
           ELSE Cardinality({x \in DOMAIN call.args.game.horizontal_edges :
                                /\ x[2] <= NCols(call.args.game.vertical_edges)
                                /\ Claimant(call.args.game, x[1], x[2]) = p.id})]

\* C23: in the get_rankings of Bingo, Bluff and Boxes the rank numbers
\* start at 1, two adjacent players of the list have the same rank number
\* if and only if their comparison keys are equal, and the rank number
\* goes up by one exactly where the key changes.
C23_RankNumbersFollowKeys ==
    (ret.op = "return"
     /\ ret.fn \in {"get_rankings", "Bluff_get_rankings", "Boxes_get_rankings"})
    => NumberedByKey(ret.result, KeysOf(ret))

\* the same for the rankings of Bingo alone
C23_BingoRankNumbers ==
    (ret.op = "return" /\ ret.fn = "get_rankings")
    => NumberedByKey(ret.result, KeysOf(ret))

\* every cell of the grid has its four edges claimed
AllCellsClaimed(boxes) ==
    \A i \in 1..NRows(boxes.horizontal_edges), j \in 1..NCols(boxes.vertical_edges) :
        Claimant(boxes, i, j) # NoTurn

\* C30: the is_game_end of Boxes is true exactly when every cell of the
\* grid is claimed or at most one player is connected.
C30_BoxesEndsWhenFullOrAlone ==
    (ret.op = "return" /\ ret.fn = "Boxes_is_game_end")
    => (ret.result
        <=> \/ AllCellsClaimed(ret.args.game)
            \/ Cardinality(Connected(ret.args.players)) <= 1)

\* numbers is an n-by-n grid, n rows of n cells, whose n*n values are
\* pairwise distinct and lie in 1..n*n
IsGrid(numbers, n) ==
    /\ Len(numbers) = n
    /\ \A i \in DOMAIN numbers : Len(numbers[i]) = n
    /\ Flatten(numbers) = 1..(n * n)

\* C24: Board::new accepts exactly the n-by-n grids of pairwise distinct
\* values in 1..n*n, so every board stored for a player of a game is
\* such a grid for the board size of the game.
C24_StoredBoardsAreGrids ==
    \A r \in DOMAIN rooms :
        rooms[r].state = "Game"
        => \A i \in DOMAIN rooms[r].players :
              rooms[r].players[i].board # NoBoard
              => IsGrid(rooms[r].players[i].board, rooms[r].game.board_size)

\* the PlayerConnected broadcast of subscription s has not been sent on
\* the channel of s yet
ConnectedEventPending(s) ==
    \E job \in jobs : job.task = "sub" /\ job.sub = s /\ s \in job.pending

\* C25: the first event placed on the channel of a successful subscribe is
\* the PlayerConnected event of that subscription: as long as that event
\* has not been sent on the channel, nothing else is on it, whatever else
\* runs on the room.
C25_ConnectedEventFirst ==
    \A s \in SubIds : ConnectedEventPending(s) => subs[s].buf = << >>

\* C26: server_messages for a room that is not in the registry, or for a
\* player id that is not in the roster of the room, fails: it installs no
\* channel, starts no broadcast and creates no subscription, so no Drop
\* task will ever run for it.
C26_RefusedSubscribeLeavesNoTrace ==
    [][\A p \in Players, r \in RoomIds :
          (/\ ret'.op = "server_messages"
           /\ r \notin DOMAIN rooms \/ ~HasPlayer(rooms[r].players, p)
           /\ server_messages(p, r))
          => /\ ret'.err = IF r \in DOMAIN rooms THEN "Player does not exist"
                           ELSE "Room does not exist"
             /\ rooms' = rooms
             /\ jobs' = jobs
             /\ subs' = subs
             /\ fin' = fin]_vars

\* a player who is not in the roster of an existing room has just been
\* refused a subscription
C26_StrangerRefused ==
    /\ ret = Returned("server_messages", "", "Player does not exist")
    /\ \E r \in DOMAIN rooms : \E p \in Players : ~HasPlayer(rooms[r].players, p)

\* C27: the Drop task sends PlayerLeft only if the room was still in the
\* registry after its cleanup, and only to the members that are connected
\* then: never on the channel of the subscription that ended, and nothing
\* at all when the cleanup removed the room.
C27_PlayerLeftOnlyToRemaining ==
    [][\A s \in SubIds :
          (BetweenBlocks(s) /\ drop_broadcast(s))
          => LET room_id == subs[s].room
                 sent == jobs' \ jobs
             IN /\ fin[s] = "removed" => sent = {}
                /\ room_id \notin DOMAIN rooms => sent = {}
                /\ \A job \in sent :
                      /\ job.message = Message("PlayerLeft", subs[s].player)
                      /\ s \notin job.pending
                      /\ \A c \in job.pending :
                            \E i \in Connected(rooms[room_id].players) :
                                rooms[room_id].players[i].send_channel = c]_vars

\* C28: create_lobby never replaces a room: for an id that is in the
\* registry it fails with "Cant create room" and leaves every room as it
\* was; for an absent id it adds one room and changes no other, and the
\* new room is a Lobby whose roster is the seed player alone, without a
\* channel and without a last game.
C28_CreateNeverReplaces ==
    [][\A p \in Players, r \in RoomIds :
          (ret'.op = "create_lobby" /\ create_lobby(p, r))
          => IF r \in DOMAIN rooms
             THEN ret'.err = "Cant create room" /\ rooms' = rooms
             ELSE /\ ret'.err = ""
                  /\ DOMAIN rooms' = DOMAIN rooms \cup {r}
                  /\ \A k \in DOMAIN rooms : rooms'[k] = rooms[k]
                  /\ rooms'[r].state = "Lobby"
                  /\ rooms'[r].players
                       = <<[id |-> p, send_channel |-> NoChannel, board |-> NoBoard]>>
                  /\ ~rooms'[r].last_game.present]_vars

\* a create_lobby has just drawn the id of a room that has a connected
\* player, and failed
C28_CollisionRefused ==
    /\ ret = Returned("create_lobby", "", "Cant create room")
    /\ \E r \in DOMAIN rooms : Connected(rooms[r].players) # {}

\* C29: chat leaves the registry and every room as they were in every
\* case; it fails with "Room does not exist" when the room is absent and
\* with "Player not in room" when the sender is not in the roster, and in
\* both cases starts no broadcast; otherwise it succeeds.
C29_ChatChangesNothing ==
    [][\A p \in Players, r \in RoomIds :
          (ret'.op = "chat" /\ chat(p, r))
          => /\ rooms' = rooms
             /\ r \notin DOMAIN rooms
                  => (ret'.err = "Room does not exist" /\ jobs' = jobs /\ subs' = subs)
             /\ (r \in DOMAIN rooms /\ ~HasPlayer(rooms[r].players, p))
                  => (ret'.err = "Player not in room" /\ jobs' = jobs /\ subs' = subs)
             /\ (r \in DOMAIN rooms /\ HasPlayer(rooms[r].players, p))
                  => ret'.err = ""]_vars

\* a player who is not in the roster has just been refused a chat message
\* to a room that has a connected member
C29_StrangerChatRefused ==
    /\ ret = Returned("chat", "", "Player not in room")
    /\ jobs = {}
    /\ \E r \in DOMAIN rooms : Connected(rooms[r].players) # {}

\* C31: the Drop task changes only the channel of the departing player
\* and, if that player held it, the turn: unless the end-of-game
\* evaluation takes the room from Game to Lobby, the roster entries and
\* their order, every board, every other channel, the call history and
\* the rest of the game are the same before and after.
C31_FinalizerKeepsRosterAndGame ==
    [][\A s \in SubIds :
          LET r == subs[s].room
              p == subs[s].player
          IN (/\ FinalizerStep(s)
              /\ r \in DOMAIN rooms /\ r \in DOMAIN rooms'
              /\ ~GameToLobby(r))
             => LET old == rooms[r]
                    new == rooms'[r]
                IN /\ new.state = old.state
                   /\ new.last_game = old.last_game
                   /\ Len(new.players) = Len(old.players)
                   /\ \A i \in DOMAIN old.players :
                         /\ new.players[i].id = old.players[i].id
                         /\ new.players[i].board = old.players[i].board
                         /\ new.players[i].send_channel
                              = IF old.players[i].id = p THEN NoChannel
                                ELSE old.players[i].send_channel
                   /\ [new.game EXCEPT !.turn = old.game.turn] = old.game
                   /\ new.game.turn # old.game.turn => old.game.turn = p]_vars

\* the Drop task of a player has just run on a running game that goes on
C31_DroppedFromRunningGame ==
    \E s \in SubIds :
        /\ BetweenBlocks(s)
        /\ ret.op = "drop"
        /\ subs[s].room \in DOMAIN rooms
        /\ LET room == rooms[subs[s].room]
           IN /\ room.state = "Game"
              /\ is_game_running(room.game)
              /\ room.game.selected_numbers # << >>
              /\ \E i \in DOMAIN room.players :
                    /\ room.players[i].id = subs[s].player
                    /\ room.players[i].send_channel = NoChannel

\* C32: leave_room deletes the roster entry of the leaving player, keeps
\* the other entries as they were and in their order (with their boards
\* while the room stays in its mode), and reports the removed player; for
\* an id that is not in the roster it fails and changes nothing.
C32_LeaveDeletesOneEntry ==
    [][\A p \in ThreePlayers, r \in RoomIds :
          (ret'.op = "disconnect" /\ r \in DOMAIN rooms /\ disconnect(p, r))
          => IF HasPlayer(rooms[r].players, p)
             THEN LET old == rooms[r]
                      new == rooms'[r]
                      at == Position(old.players, p)
                      before(k) == old.players[IF k < at THEN k ELSE k + 1]
                  IN /\ ret'.err = ""
                     /\ ~HasPlayer(new.players, p)
                     /\ Len(new.players) = Len(old.players) - 1
                     /\ \A k \in DOMAIN new.players :
                           /\ new.players[k].id = before(k).id
                           /\ new.players[k].send_channel = before(k).send_channel
                           /\ new.state = old.state
                                => new.players[k].board = before(k).board
                     /\ \A job \in jobs' \ jobs :
                           job.message = Message("PlayerRemoved", p)
                     /\ Recipients(new) # {} => jobs' # jobs
             ELSE /\ ret'.err = "Player doesnt exist"
                  /\ rooms' = rooms
                  /\ jobs' = jobs]_vars

\* the first player of the roster has just left a game that goes on with
\* the other two
C32_FirstPlayerLeftGame ==
    /\ ret = Returned("disconnect", "", "")
    /\ \E r \in DOMAIN rooms :
          /\ rooms[r].state = "Game"
          /\ Len(rooms[r].players) = 2
          /\ rooms[r].players[1].id = "b"
          /\ rooms[r].players[2].id = "c"
          /\ rooms[r].players[2].board # NoBoard

\* C33: the write sections of the requests on one room run one at a time,
\* so of the start_game requests issued at the same time on a Lobby at
\* most one turns the room into a game: every other one, whenever it gets
\* the lock, fails with "Game Already Started" and changes nothing.
C33_OneStartWins ==
    /\ games <= 1
    /\ \A r \in DOMAIN rooms : rooms[r].state = "Game" <=> games = 1
    /\ (ret.op = "start_game" /\ ret.err # "")
         => (games = 1 /\ ret.err = "Game Already Started")

\* a second start_game has failed while the GameStarted broadcast of the
\* first has not reached anybody yet
C33_SecondStartRefused ==
    /\ ret = Returned("start_game", "", "Game Already Started")
    /\ \E job \in jobs, r \in DOMAIN rooms :
          /\ job.message.kind = "GameStarted"
          /\ job.pending = Recipients(rooms[r])

\* every subscription that was opened on the room of s, other than s, has
\* ended and its Drop task is past its first block
LastToClean(s) ==
    \A t \in SubIds \ {s} :
        (subs[t].status # "unused" /\ subs[t].room = subs[s].room)
        => (subs[t].status = "closed" /\ fin[t] \notin {"none", "spawned"})

\* C34: the disconnect path leaks no room: when the subscriptions opened
\* on a room have all ended, the first block of the last Drop task to run
\* on the room takes the room out of the registry.
C34_LastFinalizerRemovesRoom ==
    [][\A s \in SubIds :
          (/\ FinalizerStep(s)
           /\ subs[s].room \in DOMAIN rooms
           /\ LastToClean(s))
          => subs[s].room \notin DOMAIN rooms']_vars

\* two subscriptions were opened on a room, both have ended, and the Drop
\* task that ran last has removed the room
C34_RoomGoneAfterLastDrop ==
    \E s \in SubIds :
        /\ fin[s] = "removed"
        /\ ret.op = "drop"
        /\ \A t \in SubIds \ {s} :
              /\ subs[t].status = "closed"
              /\ subs[t].room = subs[s].room
              /\ subs[t].player # subs[s].player
              /\ fin[t] = "done"

\* the player ids of a roster, in its order
IdsOf(players) == [i \in DOMAIN players |-> players[i].id]

\* the ids without the one of a player who left
Without(ids, player_id) ==
    LET other(x) == x # player_id IN SelectSeq(ids, other)

\* C35: both mode transitions carry the roster over: after Lobby to Game
\* and after Game to Lobby the roster has the same player ids in the same
\* order; when a leave_room ends the game, the ids of those who stay.
C35_TransitionsKeepRoster ==
    [][\A r \in RoomIds :
          (/\ r \in DOMAIN rooms /\ r \in DOMAIN rooms'
           /\ rooms[r].state # rooms'[r].state)
          => LET old == IdsOf(rooms[r].players)
                 new == IdsOf(rooms'[r].players)
             IN IF ret'.op = "disconnect"
                THEN \E p \in ThreePlayers : disconnect(p, r) /\ new = Without(old, p)
                ELSE new = old]_vars

\* a game of three has ended and the Lobby has the three of them, one of
\* them without a channel
C35_ThreeBackInLobby ==
    \E r \in DOMAIN rooms :
        /\ rooms[r].state = "Lobby"
        /\ rooms[r].last_game.present
        /\ IdsOf(rooms[r].players) = <<"a", "b", "c">>
        /\ rooms[r].players[2].send_channel = NoChannel

\* C36: in Lobby and in Game mode no two entries of a room's roster have the
\* same player id.
C36_RosterIdsDistinct ==
    \A r \in DOMAIN rooms :
        \A i, j \in DOMAIN rooms[r].players :
            rooms[r].players[i].id = rooms[r].players[j].id => i = j

\* a member has joined the room of the second game again
C36_RejoinedDuringGame ==
    /\ ret = Returned("join_lobby", "", "")
    /\ games = MaxGames
    /\ \E r \in DOMAIN rooms :
          /\ rooms[r].state = "Game"
          /\ Len(rooms[r].players) = 2

\* C37: whenever a room is in a running Bingo game, the turn-holder is a
\* player of the roster with a live channel.
C37_TurnHolderConnected ==
    \A r \in DOMAIN rooms :
        (rooms[r].state = "Game" /\ is_game_running(rooms[r].game))
        => \E i \in DOMAIN rooms[r].players :
              /\ rooms[r].players[i].id = rooms[r].game.turn
              /\ rooms[r].players[i].send_channel # NoChannel

\* C38: a subscriber never receives the snapshot of an earlier mutation
\* after the snapshot of a later mutation of the same room.  RoomUpdate is
\* sent by ready_board, which needs the room in Game; while one game has
\* been started, every RoomUpdate comes from a write section later than
\* the one of the GameStarted, so no RoomUpdate is queued ahead of it.
C38_SnapshotsInLockOrder ==
    \A s \in SubIds :
        \A i, j \in DOMAIN subs[s].buf :
            (games = 1 /\ i < j /\ subs[s].buf[j].kind = "GameStarted")
            => subs[s].buf[i].kind # "RoomUpdate"

\* C39: a Bingo game does not stay in BoardCreation once every player of
\* the roster has submitted a board, also after a leave_room.
C39_AllBoardsMeansRunning ==
    \A r \in DOMAIN rooms :
        (/\ rooms[r].state = "Game"
         /\ \A i \in DOMAIN rooms[r].players : rooms[r].players[i].board # NoBoard)
        => is_game_running(rooms[r].game)

\* the cells whose fourth edge the step from boxes to moved has occupied
Completed(boxes, moved) ==
    {x \in (1..NRows(boxes.horizontal_edges)) \X (1..NCols(boxes.vertical_edges)) :
        /\ Claimant(boxes, x[1], x[2]) = NoTurn
        /\ Claimant(moved, x[1], x[2]) # NoTurn}

\* the first connected player after player_id in the cyclic order of the
\* roster; player_id when nobody is connected
NextConnected(players, player_id) ==
    LET position == Position(players, player_id)
        n == Len(players)
        at(k) == players[((position + k - 1) % n) + 1]
        ks == {k \in 1..n : at(k).send_channel # NoChannel}
    IN IF ks = {} THEN player_id ELSE at(SetMin(ks)).id

\* C40: in Boxes an accepted move that completes a cell leaves the turn
\* with the mover, who owns that cell; a move that completes no cell
\* passes the turn to the next connected player; a move on an occupied or
\* unknown edge fails and changes nothing.
C40_BoxesMoveTurnAndOwner ==
    [][(ret.op = "call" /\ ret.fn = "Boxes")
       => \A p \in Players, e \in 0..(SetMax(BoxesEdgeIds) + 1) :
             LET boxes == ret.args.game
                 players == ret.args.players
                 res == Boxes_Move(boxes, players, p, e)
                 free == \E f \in Edges(boxes) : f.id = e /\ ~is_occupied(f)
             IN /\ (boxes.turn = p /\ ~free) => (res.err # "" /\ res.game = boxes)
                /\ Boxes_move(p, e)
                   => LET moved == ret'.args.game
                      IN IF Completed(boxes, moved) # {}
                         THEN /\ moved.turn = p
                              /\ \A x \in Completed(boxes, moved) :
                                    Boxes_get_cells(moved)[x].occupied_by = p
                         ELSE moved.turn = NextConnected(players, p)]_vars
====
